---- MODULE Spec2Model ----
(***************************************************************************)
(* A model of the remote file browser: the file-list state machine         *)
(* (RemoteFileBrowserField), the upload strategy (RemoteUploadStrategy)    *)
(* and the remote tags workflow.  Strings are sequences of one-character   *)
(* strings, so that the string functions of the code are computed.         *)
(*                                                                         *)
(* JavaScript runs one task at a time: an action of the model is one task  *)
(* (an event handler, or the arrival of a network reply) together with     *)
(* every promise continuation it makes runnable.  The states handed to the *)
(* observer in between are recorded in last.notified.                      *)
(***************************************************************************)
EXTENDS Integers, Sequences, FiniteSets, TLC

VARIABLES
    state,            \* RemoteFileBrowserField.state
    fileFilter,       \* RemoteFileBrowserField.fileFilter
    strategy,         \* RemoteUploadStrategy.maxFileSize / allowedTypes
    hasTagsService,   \* RemoteFileBrowserField.tagsService is set
    currentUploadTag, \* RemoteFileBrowserField.currentUploadTag
    batches,          \* the uploadFiles calls that are awaiting the strategy
    initCall,         \* the initializeFromRemoteTags call in flight, if any
    postCall,         \* the postFilesToServer call in flight, if any
    last,             \* what the last task did (operation, notifications, results)
    tickets,          \* RemoteFileUploadTicketViewModel.tickets
    now               \* the clock that new Date() reads

vars == <<state, fileFilter, strategy, hasTagsService, currentUploadTag,
          batches, initCall, postCall, last, tickets, now>>

----------------------------------------------------------------------------
(* Bounds of the model *)

MaxIds == 2             \* file ids that can be referenced at one time
MaxAdd == 2             \* candidates of one addFiles call
MaxStrategyFiles == 7   \* files of one direct uploadFiles call of the strategy

----------------------------------------------------------------------------
(* Strings *)

Min(a, b) == IF a < b THEN a ELSE b
Max(a, b) == IF a > b THEN a ELSE b

UpperChars == <<"A","B","C","D","E","F","G","H","I","J","K","L","M",
                "N","O","P","Q","R","S","T","U","V","W","X","Y","Z">>
LowerChars == <<"a","b","c","d","e","f","g","h","i","j","k","l","m",
                "n","o","p","q","r","s","t","u","v","w","x","y","z">>

toLowerChar(c) ==
    IF \E i \in 1..26 : UpperChars[i] = c
    THEN LowerChars[CHOOSE i \in 1..26 : UpperChars[i] = c]
    ELSE c

toLowerCase(s) == [i \in 1..Len(s) |-> toLowerChar(s[i])]

startsWith(s, p) == Len(p) <= Len(s) /\ SubSeq(s, 1, Len(p)) = p

endsWith(s, p) == Len(p) <= Len(s) /\ SubSeq(s, Len(s) - Len(p) + 1, Len(s)) = p

includes(s, p) == \E i \in 1..(Len(s) - Len(p) + 1) : SubSeq(s, i, i + Len(p) - 1) = p

IsSpace(c) == c \in {" ", "\t", "\n"}

RECURSIVE trimStart(_)
trimStart(s) == IF s # <<>> /\ IsSpace(Head(s)) THEN trimStart(Tail(s)) ELSE s

RECURSIVE trimEnd(_)
trimEnd(s) ==
    IF s # <<>> /\ IsSpace(s[Len(s)]) THEN trimEnd(SubSeq(s, 1, Len(s) - 1)) ELSE s

trim(s) == trimEnd(trimStart(s))

\* s.split(sep) for a one-character separator: always at least one piece
RECURSIVE split(_, _)
split(s, sep) ==
    IF \E i \in 1..Len(s) : s[i] = sep
    THEN LET i == CHOOSE k \in 1..Len(s) :
                      s[k] = sep /\ \A j \in 1..(k - 1) : s[j] # sep
         IN  <<SubSeq(s, 1, i - 1)>> \o split(SubSeq(s, i + 1, Len(s)), sep)
    ELSE <<s>>

\* parts.join(sep)
RECURSIVE join(_, _)
join(parts, sep) ==
    IF parts = <<>> THEN <<>>
    ELSE IF Len(parts) = 1 THEN parts[1]
    ELSE parts[1] \o <<sep>> \o join(Tail(parts), sep)

\* s.replace('*', '.*'): the first occurrence only
replaceFirstStar(s) ==
    IF \E i \in 1..Len(s) : s[i] = "*"
    THEN LET i == CHOOSE k \in 1..Len(s) :
                      s[k] = "*" /\ \A j \in 1..(k - 1) : s[j] # "*"
         IN  SubSeq(s, 1, i - 1) \o <<".", "*">> \o SubSeq(s, i + 1, Len(s))
    ELSE s

\* new RegExp(re).test(s), for patterns made of literal characters, '.' and a
\* postfix '*' (the patterns an accept list holds); the match is unanchored
AtomMatches(a, c) == a = "." \/ a = c

RECURSIVE MatchHere(_, _, _, _)
MatchHere(re, i, s, j) ==
    IF i > Len(re) THEN TRUE
    ELSE IF i + 1 <= Len(re) /\ re[i + 1] = "*"
    THEN \/ MatchHere(re, i + 2, s, j)
         \/ (j <= Len(s) /\ AtomMatches(re[i], s[j]) /\ MatchHere(re, i, s, j + 1))
    ELSE j <= Len(s) /\ AtomMatches(re[i], s[j]) /\ MatchHere(re, i + 1, s, j + 1)

RegExpTest(re, s) == \E j \in 1..(Len(s) + 1) : MatchHere(re, 1, s, j)

----------------------------------------------------------------------------
(* Sequences *)

\* array.slice(from, to) with 0-based bounds, to exclusive
slice(array, from, to) == SubSeq(array, from + 1, Min(to, Len(array)))

Range(s) == {s[i] : i \in 1..Len(s)}

RECURSIVE SeqsUpTo(_, _)
\* the sequences over S of length at most n
SeqsUpTo(S, n) ==
    IF n = 0 THEN {<<>>}
    ELSE LET shorter == SeqsUpTo(S, n - 1)
         IN  shorter \cup {Append(q, x) : q \in {r \in shorter : Len(r) = n - 1}, x \in S}

----------------------------------------------------------------------------
(* The values of the program *)

Undefined == -1             \* an absent number (undefined)
UndefinedStr == <<"undefined">>   \* an absent string (undefined)
NoUrl == UndefinedStr
NoFile == 0                 \* RemoteFile.file is undefined

\* The File objects a user can hand to addFiles
Files == <<
    [name |-> <<"a", ".", "p", "n", "g">>, size |-> 2,
     type |-> <<"i", "m", "a", "g", "e", "/", "p", "n", "g">>, lastModified |-> 3],
    [name |-> <<"c", "?", ".", "p", "n", "g">>, size |-> 3,
     type |-> <<"i", "m", "a", "g", "e", "/", "p", "n", "g">>, lastModified |-> 2],
    [name |-> <<"B", ".", "P", "D", "F">>, size |-> 1,
     type |-> <<"a", "p", "p", "/", "p", "d", "f">>, lastModified |-> 1],
    [name |-> <<"d", ".", "t", "x", "t">>, size |-> 2,
     type |-> <<"t", "e", "x", "t", "/", "x">>, lastModified |-> 4],
    [name |-> <<"e", ".", "p", "n", "g">>, size |-> 9,
     type |-> <<"i", "m", "a", "g", "e", "/", "p", "n", "g">>, lastModified |-> 5]
  >>

FileRefs == 1..Len(Files)

\* blobClient.url of an uploaded file
UrlOf(name) == <<"https://blob/">> \o name

----------------------------------------------------------------------------
(* File Filter: RemoteFileBrowserField.filterFiles *)

\* JavaScript truthiness of an optional number and of an optional string
TruthyNum(n) == n # Undefined /\ n # 0
TruthyStr(s) == s # UndefinedStr /\ s # <<>>

\* fileFilter.accept.split(',').map(type => type.trim())
AcceptedTypes(accept) ==
    LET parts == split(accept, ",") IN [i \in 1..Len(parts) |-> trim(parts[i])]

\* the body of acceptedTypes.some(...) for one pattern
MatchesAcceptedType(file, acceptedType) ==
    IF startsWith(acceptedType, <<".">>)
    THEN endsWith(toLowerCase(file.name), toLowerCase(acceptedType))
    ELSE IF includes(acceptedType, <<"*">>)
    THEN RegExpTest(replaceFirstStar(acceptedType), file.type)
    ELSE file.type = acceptedType

\* acceptedTypes.some(...) for one file
MatchesSome(file, acceptedTypes) ==
    \E i \in 1..Len(acceptedTypes) : MatchesAcceptedType(file, acceptedTypes[i])

PassesMaxSize(file, ff) == file.size <= ff.maxSize

\* filterFiles(files): files is a sequence of references into Files, ff the
\* file filter, tracked the value of this.state.files.length
filterFiles(files, ff, tracked) ==
    LET acceptedTypes == AcceptedTypes(ff.accept)
        matches == [f \in Range(files) |-> MatchesSome(Files[f], acceptedTypes)]
        byType == IF TruthyStr(ff.accept)
                  THEN SelectSeq(files, LAMBDA f : matches[f])
                  ELSE files
        bySize == IF TruthyNum(ff.maxSize)
                  THEN SelectSeq(byType, LAMBDA f : PassesMaxSize(Files[f], ff))
                  ELSE byType
    IN  IF TruthyNum(ff.maxFiles)
        THEN slice(bySize, 0, Max(0, ff.maxFiles - tracked))
        ELSE bySize

----------------------------------------------------------------------------
(* Upload Strategy: RemoteUploadStrategy *)

DefaultMaxFileSize == 104857600    \* 100 * 1024 * 1024
MaxNameLength == 255
ConcurrencyLimit == 3

InvalidChars == {"<", ">", ":", "\"", "/", "\\", "|", "?", "*"}

\* validateFile rejecting a file whose size equals the ceiling
validateFileInclusive(file, strat) ==
    IF file.size >= strat.maxFileSize
    THEN [valid |-> FALSE, error |-> "size"]
    ELSE IF Len(strat.allowedTypes) > 0
            /\ ~ \E i \in 1..Len(strat.allowedTypes) : strat.allowedTypes[i] = file.type
    THEN [valid |-> FALSE, error |-> "type"]
    ELSE IF Len(file.name) > 255
    THEN [valid |-> FALSE, error |-> "nameLength"]
    ELSE IF \E i \in 1..Len(file.name) :
               file.name[i] \in {"<", ">", ":", "\"", "/", "\\", "|", "?", "*"}
    THEN [valid |-> FALSE, error |-> "nameChars"]
    ELSE [valid |-> TRUE, error |-> ""]

\* validateFile(file): the error message is named by the rule that rejects
validateFile(file, strat) ==
    IF file.size > strat.maxFileSize
    THEN [valid |-> FALSE, error |-> "size"]
    ELSE IF Len(strat.allowedTypes) > 0
            /\ ~ \E i \in 1..Len(strat.allowedTypes) : strat.allowedTypes[i] = file.type
    THEN [valid |-> FALSE, error |-> "type"]
    ELSE IF Len(file.name) > MaxNameLength
    THEN [valid |-> FALSE, error |-> "nameLength"]
    ELSE IF \E i \in 1..Len(file.name) : file.name[i] \in InvalidChars
    THEN [valid |-> FALSE, error |-> "nameChars"]
    ELSE [valid |-> TRUE, error |-> ""]

RECURSIVE chunkFrom(_, _, _)
chunkFrom(array, size, i) ==
    IF i < Len(array)
    THEN <<slice(array, i, i + size)>> \o chunkFrom(array, size, i + size)
    ELSE <<>>

\* chunkArray stepping one past the window size
chunkArrayWide(array, size) == chunkFrom(array, size + 1, 0)

\* chunkArray(array, size)
chunkArray(array, size) == chunkFrom(array, size, 0)

\* An UploadResult; error is "" when there is none
Result(success, url, error) == [success |-> success, url |-> url, error |-> error]

\* What the storage backend can do with one upload call
Outcomes == {"ok", "error", "throw"}

\* uploadFile's result once the backend call has settled with outcome o:
\* the backend's own result, or the failure made from what it threw
BackendResult(file, o) ==
    IF o = "ok" THEN Result(TRUE, UrlOf(Files[file].name), "")
    ELSE Result(FALSE, NoUrl, "upload")

\* A promise of uploadFile: settled with a value, or waiting for the backend
Unsettled == [settled |-> FALSE, value |-> Result(FALSE, NoUrl, "")]
Settled(v) == [settled |-> TRUE, value |-> v]

\* uploadFile without its validation: every file goes to the backend
uploadFileUnvalidated(file, strat) == Unsettled

\* uploadFile(file, config) up to its first await: an invalid file is
\* answered at once, a valid one is handed to storageService.uploadFile
uploadFile(file, strat) ==
    LET validation == validateFile(Files[file], strat)
    IN  IF ~ validation.valid
        THEN Settled(Result(FALSE, NoUrl, validation.error))
        ELSE Unsettled

\* An uploadFiles call of the strategy.  owner is the list of RemoteFile the
\* state machine passed to its own uploadFiles (empty for a direct call),
\* chunk the index of the window being awaited, promises the array given to
\* Promise.all.  issued lists the uploadFile calls made so far, in order, with
\* their window and what became of the backend call: "none" when validation
\* answered, "pending" while storageService.uploadFile is in flight, then
\* "ok" or "failed".
NewCall(kind, owner, fileObjects) ==
    [kind |-> kind, owner |-> owner, files |-> fileObjects,
     chunks |-> chunkArray(fileObjects, ConcurrencyLimit),
     chunk |-> 0, promises |-> <<>>, results |-> <<>>, issued |-> <<>>,
     done |-> FALSE]

AllSettled(call) == \A j \in 1..Len(call.promises) : call.promises[j].settled

\* chunk.map(file => this.uploadFile(file, config)) for window k
issueWindow(call, k, strat) ==
    LET promises == [j \in 1..Len(call.chunks[k]) |-> uploadFile(call.chunks[k][j], strat)]
    IN  [call EXCEPT !.chunk = k,
                     !.promises = promises,
                     !.issued = call.issued \o
                                [j \in 1..Len(promises) |->
                                    [file |-> call.chunks[k][j], window |-> k,
                                     backend |-> IF promises[j].settled THEN "none"
                                                 ELSE "pending"]]]

\* One turn of the for loop: results.push(...chunkResults) for the window
\* that has settled, then the next window, or the return when none is left
NextWindow(call, strat) ==
    LET pushed == call.results \o [j \in 1..Len(call.promises) |-> call.promises[j].value]
        k == call.chunk + 1
    IN  IF k > Len(call.chunks)
        THEN [call EXCEPT !.results = pushed, !.promises = <<>>, !.chunk = k,
                          !.done = TRUE]
        ELSE issueWindow([call EXCEPT !.results = pushed], k, strat)

\* The strategy runs until it must wait for the backend or returns
RECURSIVE RunStrategy(_, _)
RunStrategy(call, strat) ==
    IF call.done \/ ~ AllSettled(call) THEN call
    ELSE RunStrategy(NextWindow(call, strat), strat)

\* uploadFiles(files, config) up to its first wait
uploadFilesStart(kind, owner, fileObjects, strat) ==
    RunStrategy(NewCall(kind, owner, fileObjects), strat)

\* The backend call of promise j of the awaited window settles with outcome o
uploadSettles(call, j, o, strat) ==
    LET file == call.chunks[call.chunk][j]
        pos == Len(call.issued) - Len(call.promises) + j
    IN  RunStrategy([call EXCEPT !.promises[j] = Settled(BackendResult(file, o)),
                                 !.issued[pos].backend =
                                     IF o = "ok" THEN "ok" ELSE "failed"], strat)

\* The backend upload calls of a call that have not settled
InFlight(call) == {j \in 1..Len(call.promises) : ~ call.promises[j].settled}

----------------------------------------------------------------------------
(* File Browser State Machine: RemoteFileBrowserField *)

\* A RemoteFile made by addFiles from File reference f
NewRemoteFile(id, f) ==
    [id |-> id, name |-> Files[f].name, size |-> Files[f].size,
     type |-> Files[f].type, lastModified |-> Files[f].lastModified,
     status |-> "pending", url |-> NoUrl, file |-> f]

InitialState ==
    [files |-> <<>>, isDragActive |-> FALSE, isUploading |-> FALSE,
     selectedFiles |-> <<>>]

StateFields == {"files", "isDragActive", "isUploading", "selectedFiles"}

\* A task in progress: the state and the notifications made so far
Task(st) == [state |-> st, notified |-> <<>>]

\* updateState handing the observer the updates instead of the new state
updateStateNotifyingUpdates(m, updates) ==
    LET merged == [f \in StateFields |->
                      IF f \in DOMAIN updates THEN updates[f] ELSE m.state[f]]
    IN  [state |-> merged, notified |-> Append(m.notified, updates)]

\* updateState(updates): this.state = {...this.state, ...updates}, then the
\* observer is called with the new state
updateState(m, updates) ==
    LET merged == [f \in StateFields |->
                      IF f \in DOMAIN updates THEN updates[f] ELSE m.state[f]]
    IN  [state |-> merged, notified |-> Append(m.notified, merged)]

\* new Map(updatedFiles.map(file => [file.id, file])).get(id): the last entry
\* with that id
MapGet(updatedFiles, id) ==
    updatedFiles[CHOOSE i \in 1..Len(updatedFiles) :
                    /\ updatedFiles[i].id = id
                    /\ \A j \in (i + 1)..Len(updatedFiles) : updatedFiles[j].id # id]

MapHas(updatedFiles, id) == \E i \in 1..Len(updatedFiles) : updatedFiles[i].id = id

\* updateFiles putting back the updated files that are no longer tracked
updateFilesUpserting(m, updatedFiles) ==
    LET files == m.state.files
        newFiles == [i \in 1..Len(files) |->
                        IF \E k \in 1..Len(updatedFiles) : updatedFiles[k].id = files[i].id
                        THEN updatedFiles[CHOOSE k \in 1..Len(updatedFiles) :
                                             updatedFiles[k].id = files[i].id]
                        ELSE files[i]]
        missing == SelectSeq(updatedFiles,
                             LAMBDA u : \A i \in 1..Len(files) : files[i].id # u.id)
    IN  updateState(m, [files |-> newFiles \o missing])

\* updateFiles(updatedFiles)
updateFiles(m, updatedFiles) ==
    LET newFiles == [i \in 1..Len(m.state.files) |->
                        IF MapHas(updatedFiles, m.state.files[i].id)
                        THEN MapGet(updatedFiles, m.state.files[i].id)
                        ELSE m.state.files[i]]
    IN  updateState(m, [files |-> newFiles])

\* uploadFiles leaving the statuses of the files it submits as they are
markUploadingFlagOnly(m, files) == updateState(m, [isUploading |-> TRUE])

\* uploadFiles(files), first part: the flag, the uploading statuses
markUploading(m, files) ==
    updateFiles(updateState(m, [isUploading |-> TRUE]),
                [i \in 1..Len(files) |-> [files[i] EXCEPT !.status = "uploading"]])

\* withResults reading the first result for every file
withResultsOfFirst(files, results) ==
    [i \in 1..Len(files) |->
        [files[i] EXCEPT !.status = IF results[1].success THEN "completed" ELSE "failed",
                         !.url = results[1].url]]

\* files.map((file, index) => ({...file, status: ..., url: results[index].url}))
withResults(files, results) ==
    [i \in 1..Len(files) |->
        [files[i] EXCEPT !.status = IF results[i].success THEN "completed" ELSE "failed",
                         !.url = results[i].url]]

\* uploadFiles with the flag reset after the try block and not in a finally
uploadRaisedNoFinally(m) == m

\* uploadFiles(files) when the try block throws: only the finally block runs
uploadRaised(m) == updateState(m, [isUploading |-> FALSE])

\* uploadFiles resetting the flag without writing the statuses
uploadReturnsFlagOnly(m, call) == updateState(m, [isUploading |-> FALSE])

\* uploadFiles(files), after the await: reading results[index] of a missing
\* result throws; the finally block runs either way
uploadReturns(m, call) ==
    IF Len(call.results) < Len(call.owner)
    THEN uploadRaised(m)
    ELSE updateState(updateFiles(m, withResults(call.owner, call.results)),
                     [isUploading |-> FALSE])

uploadThrows(call) == Len(call.results) < Len(call.owner)

\* The batch slots: a batch in flight holds the id of at least one file
BatchIds == 1..(MaxIds + 2)
FreeBatch == CHOOSE b \in BatchIds : b \notin DOMAIN batches /\
                                     \A c \in BatchIds : c < b => c \in DOMAIN batches

AddBatch(call) == (FreeBatch :> call) @@ batches
DropBatch(b) == [c \in DOMAIN batches \ {b} |-> batches[c]]

\* What last records of a task
NoTag == [id |-> 0, folder |-> UndefinedStr, allowedTypes |-> <<UndefinedStr>>,
          maxFileSize |-> Undefined, maxFiles |-> Undefined]

Did(op, m, input, submitted, started, finished, threw, returned) ==
    [op |-> op, notified |-> m.notified, input |-> input, submitted |-> submitted,
     started |-> started, finished |-> finished, threw |-> threw,
     returned |-> returned]

\* Ids referenced by the list, the selection or a batch in flight
UsedIds ==
    {state.files[i].id : i \in 1..Len(state.files)}
    \cup Range(state.selectedFiles)
    \cup UNION {{batches[b].owner[i].id : i \in 1..Len(batches[b].owner)} : b \in DOMAIN batches}

\* generateFileId() called n times, when the random part never repeats: the
\* n smallest ids nothing refers to
RECURSIVE FreshIds(_, _, _)
FreshIds(n, used, pool) ==
    IF n = 0 THEN <<>>
    ELSE LET id == CHOOSE x \in pool \ used : \A y \in pool \ used : x <= y
         IN  <<id>> \o FreshIds(n - 1, used \cup {id}, pool)

\* uploadFiles(files) as run by a task m: the strategy is started, and the
\* call either waits for the backend (a batch in flight) or has returned
StartUpload(op, m, input, files, returned) ==
    LET m1 == markUploading(m, files)
        call == uploadFilesStart("field", files,
                                 [i \in 1..Len(files) |-> files[i].file], strategy)
    IN  IF call.done
        THEN LET m2 == uploadReturns(m1, call)
             IN  /\ state' = m2.state
                 /\ batches' = batches
                 /\ last' = Did(op, m2, input, files, TRUE, <<call>>,
                                uploadThrows(call), returned)
        ELSE /\ state' = m1.state
             /\ batches' = AddBatch(call)
             /\ last' = Did(op, m1, input, files, TRUE, <<>>, FALSE, returned)

\* addFiles without the early return on an empty filtered list
AddFilesNoEarlyReturn(candidates, ids) ==
    LET filteredFiles == filterFiles(candidates, fileFilter, Len(state.files))
        remoteFiles == [i \in 1..Len(filteredFiles) |->
                           NewRemoteFile(ids[i], filteredFiles[i])]
        m == updateState(Task(state), [files |-> state.files \o remoteFiles])
    IN  /\ Len(ids) = Len(filteredFiles)
        /\ StartUpload("addFiles", m, candidates, remoteFiles, "none")
        /\ UNCHANGED <<fileFilter, strategy, hasTagsService, tickets, now, currentUploadTag,
                       initCall, postCall>>

\* addFiles(fileList), with the ids generateFileId hands out
AddFiles(candidates, ids) ==
    LET filteredFiles == filterFiles(candidates, fileFilter, Len(state.files))
    IN  /\ Len(ids) = Len(filteredFiles)
        /\ IF Len(filteredFiles) = 0
           THEN /\ UNCHANGED <<state, batches>>
                /\ last' = Did("addFiles", Task(state), candidates, <<>>, FALSE,
                               <<>>, FALSE, "none")
           ELSE LET remoteFiles == [i \in 1..Len(filteredFiles) |->
                                       NewRemoteFile(ids[i], filteredFiles[i])]
                    m == updateState(Task(state),
                                     [files |-> state.files \o remoteFiles])
                IN  StartUpload("addFiles", m, candidates, remoteFiles, "none")
        /\ UNCHANGED <<fileFilter, strategy, hasTagsService, tickets, now, currentUploadTag,
                       initCall, postCall>>

\* retry filters that take more than the failed files
isUnfinished(file) == file.status # "completed"
isFailedOrCompleted(file) == file.status \in {"failed", "completed"}

\* file => file.status === 'failed'
isFailed(file) == file.status = "failed"

\* retryFailedUploads()
RetryFailedUploads ==
    LET failedFiles == SelectSeq(state.files, isFailed)
    IN  /\ StartUpload("retryFailedUploads", Task(state), <<>>, failedFiles, "none")
        /\ UNCHANGED <<fileFilter, strategy, hasTagsService, tickets, now, currentUploadTag,
                       initCall, postCall>>

\* The backend settles upload j of the window batch b awaits; when the
\* window is complete the strategy goes on, and when it returns uploadFiles
\* writes the statuses
UploadSettles(b, j, o) ==
    /\ b \in DOMAIN batches
    /\ j \in InFlight(batches[b])
    /\ LET call == uploadSettles(batches[b], j, o, strategy)
       IN  IF call.done /\ call.kind = "field"
           THEN LET m == uploadReturns(Task(state), call)
                IN  /\ state' = m.state
                    /\ batches' = DropBatch(b)
                    /\ last' = Did("uploadSettles", m, <<>>, <<>>, FALSE, <<call>>,
                                   uploadThrows(call), "none")
           ELSE IF call.done
           THEN /\ state' = state
                /\ batches' = DropBatch(b)
                /\ last' = Did("uploadSettles", Task(state), <<>>, <<>>, FALSE,
                               <<call>>, FALSE, "none")
           ELSE /\ state' = state
                /\ batches' = [batches EXCEPT ![b] = call]
                /\ last' = Did("uploadSettles", Task(state), <<>>, <<>>, FALSE,
                               <<>>, FALSE, "none")
    /\ UNCHANGED <<fileFilter, strategy, hasTagsService, tickets, now, currentUploadTag,
                   initCall, postCall>>

\* The promise of uploadStrategy.uploadFiles that batch b awaits rejects (a
\* strategy derived from RemoteUploadStrategy may): uploadFiles leaves the
\* statuses as they are, runs its finally block and rejects in turn
UploadRejects(b) ==
    /\ b \in DOMAIN batches
    /\ batches[b].kind = "field"
    /\ LET m == uploadRaised(Task(state))
       IN  /\ state' = m.state
           /\ batches' = DropBatch(b)
           /\ last' = Did("uploadRejects", m, <<>>, <<>>, FALSE, <<batches[b]>>,
                          TRUE, "none")
    /\ UNCHANGED <<fileFilter, strategy, hasTagsService, tickets, now, currentUploadTag,
                   initCall, postCall>>

\* uploadStrategy.uploadFiles(files, config) called by a client of the
\* strategy itself
StrategyUploadFiles(files) ==
    /\ batches = <<>>
    /\ LET call == uploadFilesStart("direct", <<>>, files, strategy)
       IN  /\ batches' = IF call.done THEN batches ELSE AddBatch(call)
           /\ last' = Did("uploadFiles", Task(state), files, <<>>, TRUE,
                          IF call.done THEN <<call>> ELSE <<>>, FALSE, "none")
    /\ UNCHANGED <<state, fileFilter, strategy, hasTagsService, tickets, now, currentUploadTag,
                   initCall, postCall>>

\* A task that only changes the state
Simple(op, m) ==
    /\ state' = m.state
    /\ last' = Did(op, m, <<>>, <<>>, FALSE, <<>>, FALSE, "none")
    /\ UNCHANGED <<fileFilter, strategy, hasTagsService, tickets, now, currentUploadTag,
                   batches, initCall, postCall>>

\* A task that only changes the state, called with an argument
SimpleWith(op, m, input) ==
    /\ state' = m.state
    /\ last' = Did(op, m, input, <<>>, FALSE, <<>>, FALSE, "none")
    /\ UNCHANGED <<fileFilter, strategy, hasTagsService, tickets, now, currentUploadTag,
                   batches, initCall, postCall>>

\* setDragActive(isDragActive)
SetDragActive(isDragActive) ==
    Simple("setDragActive", updateState(Task(state), [isDragActive |-> isDragActive]))

\* removeFile by indexOf and splice: splice(-1, 1) takes the last file away
removeFileBySplice(m, fileId) ==
    LET files == m.state.files
        n == Len(files)
    IN  IF \E i \in 1..n : files[i].id = fileId
        THEN updateState(m, [files |-> SelectSeq(files, LAMBDA f : f.id # fileId)])
        ELSE updateState(m, [files |-> SubSeq(files, 1, n - 1)])

\* removeFile(fileId)
removeFile(m, fileId) ==
    updateState(m, [files |-> SelectSeq(m.state.files, LAMBDA f : f.id # fileId)])

RemoveFile(fileId) == SimpleWith("removeFile", removeFile(Task(state), fileId), <<fileId>>)

\* selectFile without its else branch: the id is pushed every time
selectFileAlwaysPushes(m, fileId) ==
    updateState(m, [selectedFiles |-> Append(m.state.selectedFiles, fileId)])

\* selectFile(fileId)
selectFile(m, fileId) ==
    LET selectedFiles == m.state.selectedFiles
    IN  IF \A i \in 1..Len(selectedFiles) : selectedFiles[i] # fileId
        THEN updateState(m, [selectedFiles |-> Append(selectedFiles, fileId)])
        ELSE LET index == CHOOSE i \in 1..Len(selectedFiles) :
                              /\ selectedFiles[i] = fileId
                              /\ \A j \in 1..(i - 1) : selectedFiles[j] # fileId
             IN  updateState(m, [selectedFiles |->
                     SubSeq(selectedFiles, 1, index - 1)
                     \o SubSeq(selectedFiles, index + 1, Len(selectedFiles))])

SelectFile(fileId) == SimpleWith("selectFile", selectFile(Task(state), fileId), <<fileId>>)

\* selectAllFiles()
selectAllFiles(m) ==
    updateState(m, [selectedFiles |->
                       [i \in 1..Len(m.state.files) |-> m.state.files[i].id]])

SelectAllFiles == Simple("selectAllFiles", selectAllFiles(Task(state)))

\* clearSelection()
clearSelection(m) == updateState(m, [selectedFiles |-> <<>>])

ClearSelection == Simple("clearSelection", clearSelection(Task(state)))

\* searchFiles comparing the name as it is written
searchFilesNameAsWritten(st, searchTerm) ==
    IF trim(searchTerm) = <<>>
    THEN st.files
    ELSE LET term == toLowerCase(searchTerm)
         IN  SelectSeq(st.files,
                       LAMBDA file : \/ includes(file.name, term)
                                     \/ includes(toLowerCase(file.type), term))

\* searchFiles(searchTerm) on state st
searchFiles(st, searchTerm) ==
    IF trim(searchTerm) = <<>>
    THEN st.files
    ELSE LET term == toLowerCase(searchTerm)
         IN  SelectSeq(st.files,
                       LAMBDA file : \/ includes(toLowerCase(file.name), term)
                                     \/ includes(toLowerCase(file.type), term))

SearchFiles(searchTerm) ==
    /\ last' = Did("searchFiles", Task(state), searchTerm, <<>>, FALSE, <<>>, FALSE,
                   searchFiles(state, searchTerm))
    /\ UNCHANGED <<state, fileFilter, strategy, hasTagsService, tickets, now, currentUploadTag,
                   batches, initCall, postCall>>

----------------------------------------------------------------------------
(* sortFiles *)

\* The UTF-16 code unit order of the characters the model uses
CharOrder == <<" ", "!", "\"", "*", ",", ".", "/", "0", "1", "2", ":", "<", ">", "?",
               "A", "B", "C", "D", "E", "F", "G", "H", "I", "J", "K", "L", "M",
               "N", "O", "P", "Q", "R", "S", "T", "U", "V", "W", "X", "Y", "Z",
               "\\", "_",
               "a", "b", "c", "d", "e", "f", "g", "h", "i", "j", "k", "l", "m",
               "n", "o", "p", "q", "r", "s", "t", "u", "v", "w", "x", "y", "z", "|">>

CharCode(c) == CHOOSE i \in 1..Len(CharOrder) : CharOrder[i] = c

\* a < b for strings
RECURSIVE StrLess(_, _)
StrLess(a, b) ==
    IF b = <<>> THEN FALSE
    ELSE IF a = <<>> THEN TRUE
    ELSE IF Head(a) = Head(b) THEN StrLess(Tail(a), Tail(b))
    ELSE CharCode(Head(a)) < CharCode(Head(b))

SortFields == {"name", "size", "lastModified", "type"}
SortDirections == {"asc", "desc"}

\* the comparison without the toLowerCase() of string values
ValueLessAsWritten(a, b, field) ==
    IF field = "lastModified" THEN a.lastModified < b.lastModified
    ELSE IF field = "size" THEN a.size < b.size
    ELSE StrLess(a[field], b[field])

\* aValue < bValue for the values the comparator takes from two files
ValueLess(a, b, field) ==
    IF field = "lastModified" THEN a.lastModified < b.lastModified
    ELSE IF field = "size" THEN a.size < b.size
    ELSE StrLess(toLowerCase(a[field]), toLowerCase(b[field]))

\* the comparator without its tests of sortOptions.direction
compareAscending(a, b, sortOptions) ==
    IF ValueLessAsWritten(a, b, sortOptions.field) THEN -1
    ELSE IF ValueLessAsWritten(b, a, sortOptions.field) THEN 1
    ELSE 0

\* the comparator of sortFiles
compare(a, b, sortOptions) ==
    IF ValueLess(a, b, sortOptions.field)
    THEN (IF sortOptions.direction = "asc" THEN -1 ELSE 1)
    ELSE IF ValueLess(b, a, sortOptions.field)
    THEN (IF sortOptions.direction = "asc" THEN 1 ELSE -1)
    ELSE 0

IndexPermutations(n) == {p \in [1..n -> 1..n] : \A i, j \in 1..n : i # j => p[i] # p[j]}

\* The arrays [...files].sort(comparator) may return: the permutations of
\* files in which no element is followed by one the comparator puts before
\* it (the order of elements that compare equal is the engine's choice)
SortResults(files, sortOptions) ==
    LET n == Len(files)
        cmp == [i \in 1..n |-> [j \in 1..n |-> compare(files[i], files[j], sortOptions)]]
    IN  {[i \in 1..n |-> files[p[i]]] : p \in
            {q \in IndexPermutations(n) :
                \A i, j \in 1..n : i < j => cmp[q[i]][q[j]] <= 0}}

\* sortFiles(sortOptions)
SortFiles(field, direction) ==
    \E sortedFiles \in SortResults(state.files, [field |-> field, direction |-> direction]) :
        LET m == updateState(Task(state), [files |-> sortedFiles])
        IN  /\ state' = m.state
            /\ last' = Did("sortFiles", m, <<field, direction>>, <<>>, FALSE, <<>>,
                           FALSE, "none")
            /\ UNCHANGED <<fileFilter, strategy, hasTagsService, tickets, now, currentUploadTag,
                           batches, initCall, postCall>>

----------------------------------------------------------------------------
(* Remote Tags Workflow *)

\* The upload tags the tag service may answer with (customTags flattened)
Tags == <<
    [id |-> 1, folder |-> <<"u", "p">>, allowedTypes |-> <<UndefinedStr>>,
     maxFileSize |-> Undefined, maxFiles |-> Undefined],
    [id |-> 2, folder |-> <<>>, allowedTypes |-> <<UndefinedStr>>,
     maxFileSize |-> Undefined, maxFiles |-> Undefined],
    [id |-> 3, folder |-> <<"u", "p">>,
     allowedTypes |-> << <<"t", "e", "x", "t", "/", "x">> >>,
     maxFileSize |-> Undefined, maxFiles |-> Undefined],
    [id |-> 4, folder |-> <<"u", "p">>, allowedTypes |-> <<UndefinedStr>>,
     maxFileSize |-> 4, maxFiles |-> 1],
    [id |-> 5, folder |-> UndefinedStr, allowedTypes |-> <<UndefinedStr>>,
     maxFileSize |-> Undefined, maxFiles |-> 1]
  >>

\* The listings the storage backend may answer with
Listings == <<
    <<>>,
    << [name |-> <<"u", "p", "/", "r", ".", "p", "n", "g">>, size |-> 4,
        lastModified |-> 6, contentType |-> <<"i", "m", "a", "g", "e", "/", "p", "n", "g">>,
        url |-> <<"https://blob/", "u", "p", "/", "r", ".", "p", "n", "g">>] >>,
    << [name |-> <<"u", "p", "/", "s", ".", "t", "x", "t">>, size |-> 7,
        lastModified |-> 8, contentType |-> <<"t", "e", "x", "t", "/", "x">>,
        url |-> <<"https://blob/", "u", "p", "/", "s", ".", "t", "x", "t">>],
       [name |-> <<"u", "p", "/", "r", ".", "p", "n", "g">>, size |-> 4,
        lastModified |-> 6, contentType |-> <<"i", "m", "a", "g", "e", "/", "p", "n", "g">>,
        url |-> <<"https://blob/", "u", "p", "/", "r", ".", "p", "n", "g">>] >>
  >>

Idle == [pc |-> "idle", folderPath |-> <<>>]

\* extractFolderPath falling back on a default folder
extractFolderPathOrDefault(uploadTag) ==
    IF uploadTag.folder \in {UndefinedStr, <<>>} THEN <<"u", "p">> ELSE uploadTag.folder

\* extractFolderPath(uploadTag)
extractFolderPath(uploadTag) ==
    IF uploadTag.folder = UndefinedStr THEN <<>> ELSE uploadTag.folder

\* getFileFilterFromUploadTag(uploadTag)
getFileFilterFromUploadTag(uploadTag) ==
    [accept |-> IF uploadTag.allowedTypes = <<UndefinedStr>> THEN UndefinedStr
                ELSE join(uploadTag.allowedTypes, ","),
     maxSize |-> uploadTag.maxFileSize,
     maxFiles |-> uploadTag.maxFiles]

\* {...this.fileFilter, ...tagFileFilter}: every key tagFileFilter has, even
\* with the value undefined, replaces the local one
mergeFilter(ff, tagFileFilter) ==
    [k \in DOMAIN ff \cup DOMAIN tagFileFilter |->
        IF k \in DOMAIN tagFileFilter THEN tagFileFilter[k] ELSE ff[k]]

\* s.replace(p, ''): the first occurrence of p removed
removeFirst(s, p) ==
    IF includes(s, p)
    THEN LET i == CHOOSE k \in 1..(Len(s) - Len(p) + 1) :
                      /\ SubSeq(s, k, k + Len(p) - 1) = p
                      /\ \A j \in 1..(k - 1) : SubSeq(s, j, j + Len(p) - 1) # p
         IN  SubSeq(s, 1, i - 1) \o SubSeq(s, i + Len(p), Len(s))
    ELSE s

\* A RemoteFile made by loadFilesFromRemoteFolder from a listed blob
RemoteFileOf(id, item, folderPath) ==
    [id |-> id, name |-> removeFirst(item.name, folderPath \o <<"/">>),
     size |-> item.size, type |-> item.contentType,
     lastModified |-> item.lastModified, status |-> "completed",
     url |-> item.url, file |-> NoFile]

\* initializeFromRemoteTags() up to the await of getUploadTag()
InitializeFromRemoteTags ==
    /\ initCall.pc = "idle"
    /\ IF ~ hasTagsService
       THEN /\ UNCHANGED <<state, initCall>>
            /\ last' = Did("initializeFromRemoteTags", Task(state), <<>>, <<>>,
                           FALSE, <<>>, FALSE, "false")
       ELSE LET m == updateState(Task(state), [isUploading |-> TRUE])
            IN  /\ state' = m.state
                /\ initCall' = [pc |-> "getUploadTag", folderPath |-> <<>>]
                /\ last' = Did("initializeFromRemoteTags", m, <<>>, <<>>, FALSE,
                               <<>>, FALSE, "none")
    /\ UNCHANGED <<fileFilter, strategy, hasTagsService, tickets, now, currentUploadTag,
                   batches, postCall>>

\* getUploadTag() answers with uploadTag (NoTag for null); the call goes on
\* to the await of listFiles or returns false
UploadTagArrives(uploadTag) ==
    /\ initCall.pc = "getUploadTag"
    /\ IF uploadTag = NoTag
       THEN LET m == updateState(Task(state), [isUploading |-> FALSE])
            IN  /\ state' = m.state
                /\ initCall' = Idle
                /\ UNCHANGED <<currentUploadTag, fileFilter>>
                /\ last' = Did("uploadTagArrives", m, <<uploadTag>>, <<>>, FALSE, <<>>,
                               FALSE, "false")
       ELSE IF extractFolderPath(uploadTag) = <<>>
       THEN LET m == updateState(Task(state), [isUploading |-> FALSE])
            IN  /\ state' = m.state
                /\ initCall' = Idle
                /\ currentUploadTag' = uploadTag
                /\ UNCHANGED fileFilter
                /\ last' = Did("uploadTagArrives", m, <<uploadTag>>, <<>>, FALSE, <<>>,
                               FALSE, "false")
       ELSE /\ currentUploadTag' = uploadTag
            /\ fileFilter' = mergeFilter(fileFilter, getFileFilterFromUploadTag(uploadTag))
            /\ initCall' = [pc |-> "listFiles",
                            folderPath |-> extractFolderPath(uploadTag)]
            /\ UNCHANGED state
            /\ last' = Did("uploadTagArrives", Task(state), <<uploadTag>>, <<>>, FALSE, <<>>,
                           FALSE, "none")
    /\ UNCHANGED <<strategy, hasTagsService, tickets, now, batches, postCall>>

\* loadFilesFromRemoteFolder adding the listed files to the tracked ones
loadFilesAppending(m, blobItems, ids, folderPath) ==
    updateState(m, [files |-> m.state.files \o
                                 [i \in 1..Len(blobItems) |->
                                     RemoteFileOf(ids[i], blobItems[i], folderPath)]])

\* loadFilesFromRemoteFolder after listFiles answered with blobItems
loadFiles(m, blobItems, ids, folderPath) ==
    updateState(m, [files |-> [i \in 1..Len(blobItems) |->
                                  RemoteFileOf(ids[i], blobItems[i], folderPath)]])

\* listFiles answers with blobItems: the list is replaced and
\* initializeFromRemoteTags returns true
ListingArrives(blobItems, ids) ==
    /\ initCall.pc = "listFiles"
    /\ Len(ids) = Len(blobItems)
    /\ LET m == updateState(loadFiles(Task(state), blobItems, ids, initCall.folderPath),
                            [isUploading |-> FALSE])
       IN  /\ state' = m.state
           /\ last' = Did("listingArrives", m, blobItems, <<>>, FALSE, <<>>, FALSE, "true")
    /\ initCall' = Idle
    /\ UNCHANGED <<fileFilter, strategy, hasTagsService, tickets, now, currentUploadTag,
                   batches, postCall>>

\* listFiles throws: loadFilesFromRemoteFolder rethrows,
\* initializeFromRemoteTags catches and returns false
ListingFails ==
    /\ initCall.pc = "listFiles"
    /\ LET m == updateState(Task(state), [isUploading |-> FALSE])
       IN  /\ state' = m.state
           /\ last' = Did("listingFails", m, <<>>, <<>>, FALSE, <<>>, FALSE, "false")
    /\ initCall' = Idle
    /\ UNCHANGED <<fileFilter, strategy, hasTagsService, tickets, now, currentUploadTag,
                   batches, postCall>>

\* What listBlobsFlat does for AzureStorageService.listFiles
ListAnswers == {"listed", "throws"}

\* AzureStorageService.listFiles: the blobs listed, or [] from its catch
\* block when the listing throws
azureListFiles(blobs, answer) == IF answer = "throws" THEN <<>> ELSE blobs

\* listFiles of the Azure storage service settles the listing awaited by
\* initializeFromRemoteTags: what it returns replaces the list
AzureListingSettles(blobs, answer, ids) ==
    /\ initCall.pc = "listFiles"
    /\ LET blobItems == azureListFiles(blobs, answer)
           m == updateState(loadFiles(Task(state), blobItems, ids, initCall.folderPath),
                            [isUploading |-> FALSE])
       IN  /\ Len(ids) = Len(blobItems)
           /\ state' = m.state
           /\ last' = Did("azureListingSettles", m, <<answer>>, <<>>, FALSE, <<>>,
                          FALSE, "true")
    /\ initCall' = Idle
    /\ UNCHANGED <<fileFilter, strategy, hasTagsService, tickets, now, currentUploadTag,
                   batches, postCall>>

\* loadFilesFromRemoteFolder(folderPath) called by the owner of the state
\* machine, up to the await of listFiles
LoadFilesFromRemoteFolder(folderPath) ==
    /\ initCall.pc = "idle"
    /\ initCall' = [pc |-> "listFilesDirect", folderPath |-> folderPath]
    /\ last' = Did("loadFilesFromRemoteFolder", Task(state), <<folderPath>>, <<>>,
                   FALSE, <<>>, FALSE, "none")
    /\ UNCHANGED <<state, fileFilter, strategy, hasTagsService, tickets, now, currentUploadTag,
                   batches, postCall>>

\* listFiles answers that call with blobItems: the list is replaced and the
\* promise resolves
DirectListingArrives(blobItems, ids) ==
    /\ initCall.pc = "listFilesDirect"
    /\ Len(ids) = Len(blobItems)
    /\ LET m == loadFiles(Task(state), blobItems, ids, initCall.folderPath)
       IN  /\ state' = m.state
           /\ last' = Did("directListingArrives", m, blobItems, <<>>, FALSE, <<>>,
                          FALSE, "undefined")
    /\ initCall' = Idle
    /\ UNCHANGED <<fileFilter, strategy, hasTagsService, tickets, now, currentUploadTag,
                   batches, postCall>>

\* listFiles rejects: the catch block logs and throws the error again, so
\* the promise of loadFilesFromRemoteFolder rejects
DirectListingFails ==
    /\ initCall.pc = "listFilesDirect"
    /\ last' = Did("directListingFails", Task(state), <<>>, <<>>, FALSE, <<>>,
                   TRUE, "none")
    /\ initCall' = Idle
    /\ UNCHANGED <<state, fileFilter, strategy, hasTagsService, tickets, now, currentUploadTag,
                   batches, postCall>>

NoRequest == [files |-> <<>>, uploadTagId |-> 0, folderPath |-> <<>>,
              totalFiles |-> 0, tagId |-> 0]

\* A post call: its position, the blob items still to download with the
\* post files made so far (postFilesToServerWithContent), and the request
\* it submitted
PostIdle == [pc |-> "idle", request |-> NoRequest, items |-> <<>>, postFiles |-> <<>>]

\* the PostFile of postFilesToServer for a tracked file
PostFileOf(file) ==
    [name |-> file.name, size |-> file.size, type |-> file.type,
     content |-> IF file.url = NoUrl THEN <<>> ELSE file.url, url |-> file.url]

\* filesToPost keeping the files still uploading as well
filesToPostNotFailed(st) ==
    SelectSeq(st.files, LAMBDA f : f.status \in {"completed", "uploading"})

\* this.state.files.filter(file => file.status === 'completed')
filesToPost(st) == SelectSeq(st.files, LAMBDA f : f.status = "completed")

\* the PostFilesRequest both post methods build
RequestOf(postFiles, totalFiles) ==
    [files |-> postFiles,
     uploadTagId |-> currentUploadTag.id,
     folderPath |-> extractFolderPath(currentUploadTag),
     totalFiles |-> totalFiles,
     tagId |-> currentUploadTag.id]

\* postFilesToServer() up to the await of the post request
PostFilesToServer ==
    /\ postCall.pc = "idle"
    /\ IF ~ hasTagsService \/ currentUploadTag = NoTag
       THEN /\ UNCHANGED <<state, postCall>>
            /\ last' = Did("postFilesToServer", Task(state), <<>>, <<>>, FALSE,
                           <<>>, FALSE, "false")
       ELSE LET m == updateState(Task(state), [isUploading |-> TRUE])
                toPost == filesToPost(m.state)
            IN  IF Len(toPost) = 0
                THEN LET m2 == updateState(m, [isUploading |-> FALSE])
                     IN  /\ state' = m2.state
                         /\ UNCHANGED postCall
                         /\ last' = Did("postFilesToServer", m2, <<>>, <<>>, FALSE,
                                        <<>>, FALSE, "false")
                ELSE /\ state' = m.state
                     /\ postCall' =
                           [PostIdle EXCEPT
                              !.pc = "post",
                              !.request = RequestOf([i \in 1..Len(toPost) |->
                                                        PostFileOf(toPost[i])],
                                                    Len(toPost))]
                     /\ last' = Did("postFilesToServer", m, <<>>, <<>>, FALSE,
                                    <<>>, FALSE, "none")
    /\ UNCHANGED <<fileFilter, strategy, hasTagsService, tickets, now, currentUploadTag,
                   batches, initCall>>

\* The post endpoint's replies: 2xx with a JSON body, 2xx with a body that
\* is not JSON, a non-2xx status, no reply at all (fetch rejects)
PostReplies == {"ok", "notJson", "non2xx", "networkError"}

\* the success of any reply
postSucceedsAlways(reply) == TRUE

\* RemoteTagsService.postFilesToServer / postFilesToServerAsJSON: success of
\* the PostFilesResponse made from the reply; everything thrown on the way
\* (the non-2xx Error, response.json() rejecting, fetch rejecting) is caught
\* and becomes success: false
postSucceeds(reply) == reply = "ok"

\* tagsService.postFilesToServer(request) or postFilesToServerAsJSON(request)
\* answers; the post method returns result.success
PostSettles(reply) ==
    /\ postCall.pc = "post"
    /\ LET m == updateState(Task(state), [isUploading |-> FALSE])
       IN  /\ state' = m.state
           /\ last' = Did("postSettles", m, <<reply>>, <<>>, FALSE, <<>>, FALSE,
                          IF postSucceeds(reply) THEN "true" ELSE "false")
    /\ postCall' = PostIdle
    /\ UNCHANGED <<fileFilter, strategy, hasTagsService, tickets, now, currentUploadTag,
                   batches, initCall>>

\* the BlobItem postFilesToServerWithContent makes of a tracked file
BlobItemOf(file) ==
    [name |-> file.name, size |-> file.size, lastModified |-> file.lastModified,
     contentType |-> file.type,
     url |-> IF file.url = NoUrl THEN <<>> ELSE file.url]

\* What a download can do: a Blob, null, or a rejection
Downloads == {"blob", "null", "throw"}

Blob == <<"blob">>

\* downloadAndConvertBlobItems putting each post file in front of the others
pushedPostFileInFront(postFiles, item, download) ==
    <<[name |-> item.name, size |-> item.size, type |-> item.contentType,
       content |-> IF download = "blob" THEN Blob ELSE item.url,
       url |-> item.url]>> \o postFiles

\* downloadAndConvertBlobItems, one turn of the loop: the post file pushed
\* for item, with the Blob or, on null or a rejection, the URL as content
pushedPostFile(postFiles, item, download) ==
    Append(postFiles, [name |-> item.name, size |-> item.size,
                       type |-> item.contentType,
                       content |-> IF download = "blob" THEN Blob ELSE item.url,
                       url |-> item.url])

\* postFilesToServerWithContent() up to the await of the first download
PostFilesToServerWithContent ==
    /\ postCall.pc = "idle"
    /\ IF ~ hasTagsService \/ currentUploadTag = NoTag
       THEN /\ UNCHANGED <<state, postCall>>
            /\ last' = Did("postFilesToServerWithContent", Task(state), <<>>, <<>>,
                           FALSE, <<>>, FALSE, "false")
       ELSE LET m == updateState(Task(state), [isUploading |-> TRUE])
                toPost == filesToPost(m.state)
            IN  IF Len(toPost) = 0
                THEN LET m2 == updateState(m, [isUploading |-> FALSE])
                     IN  /\ state' = m2.state
                         /\ UNCHANGED postCall
                         /\ last' = Did("postFilesToServerWithContent", m2, <<>>, <<>>,
                                        FALSE, <<>>, FALSE, "false")
                ELSE /\ state' = m.state
                     /\ postCall' =
                           [PostIdle EXCEPT
                              !.pc = "download",
                              !.items = [i \in 1..Len(toPost) |-> BlobItemOf(toPost[i])]]
                     /\ last' = Did("postFilesToServerWithContent", m, <<>>, <<>>,
                                    FALSE, <<>>, FALSE, "none")
    /\ UNCHANGED <<fileFilter, strategy, hasTagsService, tickets, now, currentUploadTag,
                   batches, initCall>>

\* The download of the next blob item settles; after the last one the
\* request is built and submitted with postFilesToServerAsJSON
DownloadSettles(download) ==
    /\ postCall.pc = "download"
    /\ LET item == postCall.items[Len(postCall.postFiles) + 1]
           postFiles == pushedPostFile(postCall.postFiles, item, download)
       IN  postCall' =
              IF Len(postFiles) < Len(postCall.items)
              THEN [postCall EXCEPT !.postFiles = postFiles]
              ELSE [postCall EXCEPT
                      !.pc = "post",
                      !.postFiles = postFiles,
                      !.request = RequestOf(postFiles, Len(postCall.items))]
    /\ last' = Did("downloadSettles", Task(state), <<download>>, <<>>, FALSE, <<>>,
                   FALSE, "none")
    /\ UNCHANGED <<state, fileFilter, strategy, hasTagsService, tickets, now, currentUploadTag,
                   batches, initCall>>

----------------------------------------------------------------------------
(* The upload tickets: RemoteFileUploadTicketViewModel *)

MaxTickets == 2     \* ticket ids the endpoint hands out
MaxClock == 3       \* the last clock value

TicketIds == 1..MaxTickets

\* new Map()
NoTickets == <<>>

\* map.set(key, value)
MapSet(map, key, value) ==
    [k \in DOMAIN map \cup {key} |-> IF k = key THEN value ELSE map[k]]

\* isTicketExpired(ticket): new Date() > ticket.expiryDate
isTicketExpired(ticket, clock) == clock > ticket.expiryDate

\* getActiveTickets(), as the set of their ids
getActiveTickets(map, clock) ==
    {id \in DOMAIN map : map[id].status = "active" /\ ~ isTicketExpired(map[id], clock)}

\* getExpiredTickets(), as the set of their ids
getExpiredTickets(map, clock) == {id \in DOMAIN map : isTicketExpired(map[id], clock)}

\* getTicketStats()
getTicketStats(map, clock) ==
    [total |-> Cardinality(DOMAIN map),
     active |-> Cardinality(getActiveTickets(map, clock)),
     used |-> Cardinality({id \in DOMAIN map : map[id].status = "used"}),
     expired |-> Cardinality(getExpiredTickets(map, clock))]

\* cleanupExpiredTickets leaving the used tickets alone
cleanupExpiredActiveTickets(map, clock) ==
    [id \in DOMAIN map |->
        IF isTicketExpired(map[id], clock) /\ map[id].status = "active"
        THEN [map[id] EXCEPT !.status = "expired"]
        ELSE map[id]]

\* cleanupExpiredTickets(): the map it leaves
cleanupExpiredTickets(map, clock) ==
    [id \in DOMAIN map |->
        IF isTicketExpired(map[id], clock)
        THEN [map[id] EXCEPT !.status = "expired"]
        ELSE map[id]]

\* The expiry dates the ticket endpoint hands out: later than the present
ExpiryDates(clock) == (clock + 1)..(MaxClock + 1)

\* What the ticket endpoint does with a request: a 2xx response, another
\* response, or no response (fetch rejects)
TicketReplies == {"ok", "non2xx", "networkError"}

\* A task of the ticket view model; requested tells whether it called fetch
TicketTask(op, input, requested, returned) ==
    /\ last' = Did(op, Task(state), input, <<>>, requested, <<>>, FALSE, returned)
    /\ UNCHANGED <<state, fileFilter, strategy, hasTagsService, currentUploadTag,
                   batches, initCall, postCall, now>>

\* generateUploadTicket(request), when the endpoint has answered: with a
\* ticket (id, expiryDate), or with a failure
GenerateUploadTicket(id, expiryDate, reply) ==
    /\ expiryDate \in ExpiryDates(now)
    /\ tickets' = IF reply = "ok"
                  THEN MapSet(tickets, id, [id |-> id, expiryDate |-> expiryDate,
                                            status |-> "active"])
                  ELSE tickets
    /\ TicketTask("generateUploadTicket", <<id, expiryDate, reply>>, TRUE,
                  IF reply = "ok" THEN "ticket" ELSE "null")

\* markTicketAsUsed marking the ticket whenever a response arrived
markedAsUsedOnAnyResponse(map, ticketId, reply) ==
    IF reply # "networkError" /\ ticketId \in DOMAIN map
    THEN [map EXCEPT ![ticketId].status = "used"]
    ELSE map

\* the map markTicketAsUsed(ticketId) leaves
markedAsUsed(map, ticketId, reply) ==
    IF reply = "ok" /\ ticketId \in DOMAIN map
    THEN [map EXCEPT ![ticketId].status = "used"]
    ELSE map

\* markTicketAsUsed(ticketId), when the endpoint has answered
MarkTicketAsUsed(ticketId, reply) ==
    /\ tickets' = markedAsUsed(tickets, ticketId, reply)
    /\ TicketTask("markTicketAsUsed", <<ticketId, reply>>, TRUE,
                  IF reply = "ok" THEN "true" ELSE "false")

\* cleanupExpiredTickets()
CleanupExpiredTickets ==
    /\ tickets' = cleanupExpiredTickets(tickets, now)
    /\ TicketTask("cleanupExpiredTickets", <<>>, FALSE, "undefined")

\* refreshTicket(ticketId) of a ticket in the map, when the endpoint has
\* answered; without the ticket it returns null before any request
RefreshTicket(ticketId, expiryDate, reply) ==
    /\ expiryDate \in ExpiryDates(now)
    /\ tickets' = IF reply = "ok" /\ ticketId \in DOMAIN tickets
                  THEN MapSet(tickets, ticketId,
                              [tickets[ticketId] EXCEPT !.expiryDate = expiryDate,
                                                        !.status = "active"])
                  ELSE tickets
    /\ TicketTask("refreshTicket", <<ticketId, expiryDate, reply>>,
                  ticketId \in DOMAIN tickets,
                  IF reply = "ok" /\ ticketId \in DOMAIN tickets THEN "ticket" ELSE "null")

\* Time passes
ClockAdvances ==
    /\ now < MaxClock
    /\ now' = now + 1
    /\ last' = Did("clock", Task(state), <<>>, <<>>, FALSE, <<>>, FALSE, "none")
    /\ UNCHANGED <<state, fileFilter, strategy, hasTagsService, currentUploadTag,
                   batches, initCall, postCall, tickets>>

----------------------------------------------------------------------------
(* The specifications *)

NoFilter == [accept |-> UndefinedStr, maxSize |-> Undefined, maxFiles |-> Undefined]

DefaultStrategy == [maxFileSize |-> DefaultMaxFileSize, allowedTypes |-> <<>>]

NoLast == Did("new", Task(InitialState), <<>>, <<>>, FALSE, <<>>, FALSE, "none")

\* new RemoteFileBrowserField(new RemoteUploadStrategy(service), config,
\* {fileFilter, tagsService})
Constructed(ff) ==
    /\ state = InitialState
    /\ fileFilter = ff
    /\ strategy = DefaultStrategy
    /\ hasTagsService = TRUE
    /\ currentUploadTag = NoTag
    /\ batches = <<>>
    /\ initCall = Idle
    /\ postCall = PostIdle
    /\ last = NoLast
    /\ tickets = NoTickets
    /\ now = 0

TrackedIds == {state.files[i].id : i \in 1..Len(state.files)}

\* addFiles with candidates drawn from the lists in candidateLists and ids
\* from pool, none of which is referenced
AddSome(candidateLists, pool) ==
    \E candidates \in candidateLists :
        \E n \in 0..Len(candidates) :
            /\ n <= Cardinality(pool \ UsedIds)
            /\ AddFiles(candidates, FreshIds(n, UsedIds, pool))

Settle == \E b \in BatchIds, j \in 1..ConcurrencyLimit, o \in Outcomes : UploadSettles(b, j, o)

ListSome(pool) ==
    \E blobItems \in {Listings[1], Listings[2]} :
        /\ Len(blobItems) <= Cardinality(pool \ UsedIds)
        /\ ListingArrives(blobItems, FreshIds(Len(blobItems), UsedIds, pool))

\* Spec: uploads and the remote tags workflow.  The user adds a valid file
\* (1) or one with a forbidden character in its name (2).
Init == Constructed(NoFilter)

Candidates == SeqsUpTo({1, 2}, MaxAdd)

Next ==
    \/ AddSome(Candidates, 1..MaxIds)
    \/ RetryFailedUploads
    \/ Settle
    \/ \E id \in TrackedIds : RemoveFile(id)
    \/ InitializeFromRemoteTags
    \/ \E t \in {Tags[1], NoTag} : UploadTagArrives(t)
    \/ ListSome(1..MaxIds)
    \/ ListingFails

Spec == Init /\ [][Next]_vars

\* SpecRaise: Spec with an upload strategy whose uploadFiles may reject
NextRaise ==
    \/ AddSome(Candidates, 1..MaxIds)
    \/ RetryFailedUploads
    \/ Settle
    \/ \E b \in BatchIds : UploadRejects(b)
    \/ \E id \in TrackedIds : RemoveFile(id)
    \/ InitializeFromRemoteTags
    \/ \E t \in {Tags[1], NoTag} : UploadTagArrives(t)
    \/ ListSome(1..MaxIds)
    \/ ListingFails

SpecRaise == Init /\ [][NextRaise]_vars

\* SpecSelect: the selection operations among additions, removals, sorts,
\* retries and list replacements
SelectCandidates == SeqsUpTo({1}, MaxAdd)

NextSelect ==
    \/ AddSome(SelectCandidates, 1..MaxIds)
    \/ RetryFailedUploads
    \/ Settle
    \/ \E id \in TrackedIds : RemoveFile(id)
    \/ \E id \in TrackedIds : SelectFile(id)
    \/ SelectAllFiles
    \/ ClearSelection
    \/ \E field \in SortFields, direction \in SortDirections : SortFiles(field, direction)
    \/ InitializeFromRemoteTags
    \/ \E t \in {Tags[1], NoTag} : UploadTagArrives(t)
    \/ ListSome(1..MaxIds)
    \/ ListingFails

SpecSelect == Init /\ [][NextSelect]_vars

\* SpecWindows: overlapping addFiles and retryFailedUploads calls with files
\* that are all valid
MaxWindowIds == 4       \* file ids of SpecWindows

WindowCandidates == SeqsUpTo({1}, ConcurrencyLimit) \ {<<>>}

NextWindows ==
    \/ AddSome(WindowCandidates, 1..MaxWindowIds)
    \/ RetryFailedUploads
    \/ Settle

SpecWindows == Init /\ [][NextWindows]_vars

\* SpecStrategy: one call of the upload strategy on its own
StrategyInputs == SeqsUpTo({1, 2}, MaxStrategyFiles)

NextStrategy ==
    \/ last.op = "new" /\ \E files \in StrategyInputs : StrategyUploadFiles(files)
    \/ Settle

SpecStrategy == Init /\ [][NextStrategy]_vars

\* SpecFilter: addFiles under the file filters a field can be built with.
\* The candidates are an acceptable file (1), one of another type (4) and one
\* too large (5).
MaxFilterAdd == 3       \* candidates of one addFiles call of SpecFilter
MaxFilterIds == 2       \* file ids of SpecFilter

ImageOrPdf == <<"i", "m", "a", "g", "e", "/", "*", ",", " ", ".", "p", "d", "f">>

FilterConfigs ==
    {[accept |-> a, maxSize |-> 4, maxFiles |-> n] :
        a \in {UndefinedStr, ImageOrPdf}, n \in {Undefined, 0, 1, 2}}

\* every short list, and five acceptable files at once
FilterCandidates == SeqsUpTo({1, 4, 5}, MaxFilterAdd) \cup {<<1, 1, 1, 1, 1>>}

InitFilter == \E ff \in FilterConfigs : Constructed(ff)

NextFilter ==
    \/ AddSome(FilterCandidates, 1..MaxFilterIds)
    \/ \E b \in BatchIds, j \in 1..ConcurrencyLimit : UploadSettles(b, j, "ok")
    \/ \E id \in TrackedIds : RemoveFile(id)

SpecFilter == InitFilter /\ [][NextFilter]_vars

\* SpecSearch: searches over lists of an image (1), a PDF with an upper-case
\* name (3) and a text file (4)
MaxSearchIds == 2       \* file ids of SpecSearch

SearchCandidates == SeqsUpTo({1, 3, 4}, MaxSearchIds)

SearchTerms ==
    {<<>>, <<" ">>, <<" ", "\t">>, <<"p", "n", "g">>, <<"P", "N", "G">>,
     <<"b", ".">>, <<"B", ".", "p">>, <<"/">>, <<"z", "z">>, <<" ", "a">>,
     <<"t", "e", "x", "t">>, <<"A", "P", "P", "/">>}

NextSearch ==
    \/ AddSome(SearchCandidates, 1..MaxSearchIds)
    \/ \E b \in BatchIds, j \in 1..ConcurrencyLimit : UploadSettles(b, j, "ok")
    \/ \E id \in TrackedIds : RemoveFile(id)
    \/ \E searchTerm \in SearchTerms : SearchFiles(searchTerm)

SpecSearch == Init /\ [][NextSearch]_vars

\* SpecTags: the remote tags workflow among uploads, for a field built with
\* or without a tags service; the tag service answers with a tag that has a
\* folder, one with an empty folder, one without a folder, or no upload tag
MaxTagIds == 4          \* file ids of SpecTags

InitTags ==
    /\ state = InitialState
    /\ fileFilter = NoFilter
    /\ strategy = DefaultStrategy
    /\ hasTagsService \in BOOLEAN
    /\ currentUploadTag = NoTag
    /\ batches = <<>>
    /\ initCall = Idle
    /\ postCall = PostIdle
    /\ last = NoLast
    /\ tickets = NoTickets
    /\ now = 0

TagCandidates == {<<4, 1>>}

NextTags ==
    \/ AddSome(TagCandidates, 1..MaxTagIds)
    \/ \E b \in BatchIds, j \in 1..ConcurrencyLimit : UploadSettles(b, j, "ok")
    \/ InitializeFromRemoteTags
    \/ \E t \in {Tags[1], Tags[2], Tags[5], NoTag} : UploadTagArrives(t)
    \/ \E blobItems \in Range(Listings) :
          /\ Len(blobItems) <= Cardinality((1..MaxTagIds) \ UsedIds)
          /\ ListingArrives(blobItems, FreshIds(Len(blobItems), UsedIds, 1..MaxTagIds))
    \/ ListingFails

SpecTags == InitTags /\ [][NextTags]_vars

\* SpecMerge: the tag's constraints meeting a local file filter.  The tags
\* define no constraint (1), the allowed types only (3), or the maximum size
\* and count only (4).
LocalFilter == [accept |-> ImageOrPdf, maxSize |-> 4, maxFiles |-> 1]

InitMerge == Constructed(NoFilter) \/ Constructed(LocalFilter)

MaxMergeIds == 3

MergeCandidates == {<<4, 1>>}

NextMerge ==
    \/ AddSome(MergeCandidates, 1..MaxMergeIds)
    \/ \E b \in BatchIds, j \in 1..ConcurrencyLimit : UploadSettles(b, j, "ok")
    \/ InitializeFromRemoteTags
    \/ \E t \in {Tags[1], Tags[3], Tags[4]} : UploadTagArrives(t)
    \/ /\ (1..MaxMergeIds) \ UsedIds # {}
       /\ ListingArrives(Listings[2], FreshIds(1, UsedIds, 1..MaxMergeIds))
    \/ ListingFails

SpecMerge == InitMerge /\ [][NextMerge]_vars

\* SpecPost: posting the completed files, as URL references or with their
\* downloaded content, while uploads settle either way.
MaxPostIds == 3

PostCandidates == {<<1>>}

NextPost ==
    \/ AddSome(PostCandidates, 1..MaxPostIds)
    \/ \E b \in BatchIds, j \in 1..ConcurrencyLimit, o \in {"ok", "error"} :
          UploadSettles(b, j, o)
    \/ InitializeFromRemoteTags
    \/ \E t \in {Tags[1], Tags[2]} : UploadTagArrives(t)
    \/ /\ (1..MaxPostIds) \ UsedIds # {}
       /\ ListingArrives(Listings[2], FreshIds(1, UsedIds, 1..MaxPostIds))
    \/ ListingFails
    \/ PostFilesToServer
    \/ \E reply \in PostReplies : PostSettles(reply)
    \/ PostFilesToServerWithContent
    \/ \E download \in Downloads : DownloadSettles(download)

SpecPost == Init /\ [][NextPost]_vars

\* SpecBoundary: every asynchronous operation with every answer of the
\* storage backend, the tag service and the post endpoint.
MaxBoundaryIds == 2

BoundaryCandidates == {<<1>>}

NextBoundary ==
    \/ AddSome(BoundaryCandidates, 1..MaxBoundaryIds)
    \/ RetryFailedUploads
    \/ Settle
    \/ InitializeFromRemoteTags
    \/ \E t \in {Tags[1], NoTag} : UploadTagArrives(t)
    \/ /\ (1..MaxBoundaryIds) \ UsedIds # {}
       /\ ListingArrives(Listings[2], FreshIds(1, UsedIds, 1..MaxBoundaryIds))
    \/ ListingFails
    \/ LoadFilesFromRemoteFolder(<<"u", "p">>)
    \/ /\ (1..MaxBoundaryIds) \ UsedIds # {}
       /\ DirectListingArrives(Listings[2], FreshIds(1, UsedIds, 1..MaxBoundaryIds))
    \/ DirectListingFails
    \/ PostFilesToServer
    \/ \E reply \in PostReplies : PostSettles(reply)
    \/ PostFilesToServerWithContent
    \/ \E download \in Downloads : DownloadSettles(download)

SpecBoundary == Init /\ [][NextBoundary]_vars

\* SpecAzure: the remote tags workflow with the Azure storage service as
\* the backend of the listing.
MaxAzureIds == 3

AzureCandidates == {<<1>>}

NextAzure ==
    \/ AddSome(AzureCandidates, 1..MaxAzureIds)
    \/ \E b \in BatchIds, j \in 1..ConcurrencyLimit, o \in {"ok", "error"} :
          UploadSettles(b, j, o)
    \/ \E id \in TrackedIds : RemoveFile(id)
    \/ InitializeFromRemoteTags
    \/ \E t \in {Tags[1], NoTag} : UploadTagArrives(t)
    \/ \E blobs \in {Listings[1], Listings[2]}, answer \in ListAnswers :
          LET n == Len(azureListFiles(blobs, answer))
          IN  /\ n <= Cardinality((1..MaxAzureIds) \ UsedIds)
              /\ AzureListingSettles(blobs, answer,
                                     FreshIds(n, UsedIds, 1..MaxAzureIds))

SpecAzure == Init /\ [][NextAzure]_vars

\* SpecCount: a maximum file count from the local filter or from the upload
\* tag (4), with every operation that changes the number of tracked files.
MaxCountIds == 3

OneFileFilter == [accept |-> UndefinedStr, maxSize |-> Undefined, maxFiles |-> 1]

InitCount == Constructed(NoFilter) \/ Constructed(OneFileFilter)

CountCandidates == {<<1, 1>>}

NextCount ==
    \/ AddSome(CountCandidates, 1..MaxCountIds)
    \/ \E b \in BatchIds, j \in 1..ConcurrencyLimit, o \in {"ok", "error"} :
          UploadSettles(b, j, o)
    \/ RetryFailedUploads
    \/ \E id \in TrackedIds : RemoveFile(id)
    \/ InitializeFromRemoteTags
    \/ UploadTagArrives(Tags[4])
    \/ \E blobItems \in {Listings[2], Listings[3]} :
          /\ Len(blobItems) <= Cardinality((1..MaxCountIds) \ UsedIds)
          /\ ListingArrives(blobItems, FreshIds(Len(blobItems), UsedIds, 1..MaxCountIds))
    \/ ListingFails

SpecCount == InitCount /\ [][NextCount]_vars

\* SpecTickets: the ticket ledger while time passes.
NextTickets ==
    \/ \E id \in TicketIds, e \in 1..(MaxClock + 1), reply \in TicketReplies :
          GenerateUploadTicket(id, e, reply)
    \/ \E id \in TicketIds, reply \in TicketReplies : MarkTicketAsUsed(id, reply)
    \/ CleanupExpiredTickets
    \/ \E id \in TicketIds, e \in 1..(MaxClock + 1), reply \in TicketReplies :
          RefreshTicket(id, e, reply)
    \/ ClockAdvances

SpecTickets == Init /\ [][NextTickets]_vars

\* SpecStall: the backend never answers the uploads of one file (5) and
\* answers every other upload in the end.
MaxStallIds == 3

StuckFile == 5

StallCandidates == {<<1, 5>>, <<1>>}

SettlesUnlessStuck(b, j) ==
    /\ b \in DOMAIN batches
    /\ j \in InFlight(batches[b])
    /\ batches[b].chunks[batches[b].chunk][j] # StuckFile
    /\ \E o \in Outcomes : UploadSettles(b, j, o)

NextStall ==
    \/ AddSome(StallCandidates, 1..MaxStallIds)
    \/ RetryFailedUploads
    \/ \E b \in BatchIds, j \in 1..ConcurrencyLimit : SettlesUnlessStuck(b, j)

SpecStall ==
    /\ Init
    /\ [][NextStall]_vars
    /\ \A b \in BatchIds, j \in 1..ConcurrencyLimit : WF_vars(SettlesUnlessStuck(b, j))

\* SpecIds: the ids generateFileId makes from the clock and Math.random(),
\* for added and for listed files.
MaxRandom == 2      \* the values Math.random() can take
MaxIdFiles == 2     \* the files addFiles tracks at most
MaxIdClock == 1     \* the last clock value of SpecIds

\* generateFileId(): `file_${Date.now()}_${random}`, one number for each
\* pair of a clock value and a random part
generateFileId(clock, random) == clock * MaxRandom + random

RandomParts == 0..(MaxRandom - 1)

IdCandidates == {<<1>>, <<1, 3>>}

GeneratedIds(n) == {[i \in 1..n |-> generateFileId(now, randoms[i])] :
                        randoms \in [1..n -> RandomParts]}

NextIds ==
    \/ \E candidates \in IdCandidates :
          /\ Len(state.files) + Len(candidates) <= MaxIdFiles
          /\ Cardinality(DOMAIN batches) < 2
          /\ \E ids \in GeneratedIds(Len(candidates)) : AddFiles(candidates, ids)
    \/ \E b \in BatchIds, j \in 1..ConcurrencyLimit : UploadSettles(b, j, "ok")
    \/ LoadFilesFromRemoteFolder(<<"u", "p">>)
    \/ \E ids \in GeneratedIds(Len(Listings[3])) : DirectListingArrives(Listings[3], ids)
    \/ now < MaxIdClock /\ ClockAdvances

SpecIds == Init /\ [][NextIds]_vars

\* SpecLive: uploads among removals, sorts, retries and further additions,
\* every backend upload call settling in the end: weak fairness of
\* SettlesSomehow(b) for every batch slot b, written with the state predicate
\* Awaited(b) in the place of ENABLED <<SettlesSomehow(b)>>_vars.
MaxLiveIds == 2

LiveCandidates == {<<1>>, <<3>>, <<2, 1>>}

\* Some upload that batch b awaits settles
SettlesSomehow(b) == \E j \in 1..ConcurrencyLimit, o \in Outcomes : UploadSettles(b, j, o)

\* Batch b awaits the backend, which is when SettlesSomehow(b) is enabled
Awaited(b) == b \in DOMAIN batches

NextLive ==
    \/ AddSome(LiveCandidates, 1..MaxLiveIds)
    \/ RetryFailedUploads
    \/ \E b \in 1..MaxLiveIds : SettlesSomehow(b)
    \/ \E id \in TrackedIds : RemoveFile(id)
    \/ \E direction \in SortDirections : SortFiles("name", direction)

SpecLive ==
    /\ Init
    /\ [][NextLive]_vars
    /\ \A b \in 1..MaxLiveIds : []<>(~ Awaited(b)) \/ []<><<SettlesSomehow(b)>>_vars

\* SpecToggle: the selection operations and removeFile on lists of up to
\* MaxIds files
NextToggle ==
    \/ AddSome(SelectCandidates, 1..MaxIds)
    \/ \E b \in BatchIds, j \in 1..ConcurrencyLimit : UploadSettles(b, j, "ok")
    \/ \E id \in TrackedIds \cup Range(state.selectedFiles) : RemoveFile(id)
    \/ \E id \in TrackedIds \cup Range(state.selectedFiles) : SelectFile(id)
    \/ SelectAllFiles
    \/ ClearSelection

SpecToggle == Init /\ [][NextToggle]_vars

\* SpecSort: sorts and selections over lists of files that differ in every
\* field (1, 3, 5) or tie on size (1, 4), with names in both cases
MaxSortIds == 3         \* file ids of SpecSort

SortCandidates ==
    {<<1, 3, 5>>, <<5, 3, 1>>, <<3, 5, 1>>, <<1, 4, 3>>, <<4, 1>>}

NextSort ==
    \/ AddSome(SortCandidates, 1..MaxSortIds)
    \/ \E b \in BatchIds, j \in 1..ConcurrencyLimit : UploadSettles(b, j, "ok")
    \/ SelectAllFiles
    \/ \E field \in SortFields, direction \in SortDirections : SortFiles(field, direction)

SpecSort == Init /\ [][NextSort]_vars

\* SpecValidate: validateFile called on files around every limit, on a
\* strategy whose limits are set and changed
ImagePng == <<"i", "m", "a", "g", "e", "/", "p", "n", "g">>
TextX == <<"t", "e", "x", "t", "/", "x">>
AppPdf == <<"a", "p", "p", "/", "p", "d", "f">>

Ceilings == {4, DefaultMaxFileSize}
AllowLists == {<<>>, <<ImagePng>>, <<AppPdf, ImagePng>>}

StrategyConfigs ==
    {[maxFileSize |-> c, allowedTypes |-> a] : c \in Ceilings, a \in AllowLists}

\* a name of n characters that starts with c
NameOf(n, c) == [i \in 1..n |-> IF i = 1 THEN c ELSE "a"]

ValidateNames ==
    {NameOf(n, "b") : n \in {1, MaxNameLength - 1, MaxNameLength, MaxNameLength + 1}}
    \cup {NameOf(3, c) : c \in InvalidChars \cup {"!", ".", "_", " "}}

ValidateFiles ==
    {[name |-> n, size |-> z, type |-> t, lastModified |-> 1] :
        n \in ValidateNames,
        z \in UNION {{c - 1, c, c + 1} : c \in Ceilings},
        t \in {ImagePng, TextX}}

\* uploadStrategy.validateFile(file)
ValidateFile(file) ==
    /\ last' = Did("validateFile", Task(state), file, <<>>, FALSE, <<>>, FALSE,
                   validateFile(file, strategy))
    /\ UNCHANGED <<state, fileFilter, strategy, hasTagsService, tickets, now, currentUploadTag,
                   batches, initCall, postCall>>

\* setMaxFileSize(size)
SetMaxFileSize(size) ==
    /\ strategy' = [strategy EXCEPT !.maxFileSize = size]
    /\ last' = Did("setMaxFileSize", Task(state), <<>>, <<>>, FALSE, <<>>, FALSE, "none")
    /\ UNCHANGED <<state, fileFilter, hasTagsService, tickets, now, currentUploadTag,
                   batches, initCall, postCall>>

\* setAllowedTypes(types)
SetAllowedTypes(types) ==
    /\ strategy' = [strategy EXCEPT !.allowedTypes = types]
    /\ last' = Did("setAllowedTypes", Task(state), <<>>, <<>>, FALSE, <<>>, FALSE, "none")
    /\ UNCHANGED <<state, fileFilter, hasTagsService, tickets, now, currentUploadTag,
                   batches, initCall, postCall>>

NextValidate ==
    \/ \E file \in ValidateFiles : ValidateFile(file)
    \/ \E size \in Ceilings : SetMaxFileSize(size)
    \/ \E types \in AllowLists : SetAllowedTypes(types)

SpecValidate == Init /\ [][NextValidate]_vars

\* SpecComponent: the field and its upload strategy as the RemoteFileBrowser
\* component builds them from one fileFilter prop.  The user adds an image
\* (1), a PDF with an upper-case name (3) or both.
ImageAny == <<"i", "m", "a", "g", "e", "/", "*">>
DotPdf == <<".", "p", "d", "f">>

ComponentFilters ==
    {[accept |-> a, maxSize |-> s, maxFiles |-> Undefined] :
        a \in {UndefinedStr, ImagePng, ImageAny, DotPdf, ImageOrPdf},
        s \in {Undefined, 1}}

\* new RemoteUploadStrategy(azureService, {maxFileSize: fileFilter?.maxSize,
\* allowedTypes: fileFilter?.accept?.split(',').map(t => t.trim())}): the
\* constructor takes each option that is truthy
ComponentStrategy(ff) ==
    [maxFileSize |-> IF TruthyNum(ff.maxSize) THEN ff.maxSize ELSE DefaultMaxFileSize,
     allowedTypes |-> IF ff.accept = UndefinedStr THEN <<>> ELSE AcceptedTypes(ff.accept)]

InitComponent ==
    \E ff \in ComponentFilters :
        /\ state = InitialState
        /\ fileFilter = ff
        /\ strategy = ComponentStrategy(ff)
        /\ hasTagsService = TRUE
        /\ currentUploadTag = NoTag
        /\ batches = <<>>
        /\ initCall = Idle
        /\ postCall = PostIdle
        /\ last = NoLast
        /\ tickets = NoTickets
        /\ now = 0

MaxComponentIds == 2

ComponentCandidates == {<<1>>, <<3>>, <<1, 3>>}

NextComponent ==
    \/ AddSome(ComponentCandidates, 1..MaxComponentIds)
    \/ \E b \in BatchIds, j \in 1..ConcurrencyLimit, o \in {"ok", "error"} :
          UploadSettles(b, j, o)
    \/ RetryFailedUploads
    \/ \E id \in TrackedIds : RemoveFile(id)

SpecComponent == InitComponent /\ [][NextComponent]_vars

----------------------------------------------------------------------------
(* Properties *)

\* The calls of the strategy that returned during the last task
Finished == Range(last.finished)

\* The uploadFiles calls of the state machine in flight
FieldBatches == {b \in DOMAIN batches : batches[b].kind = "field"}

\* The backend upload calls in flight, over every batch
BackendInFlight ==
    UNION {{<<b, p>> : p \in {q \in 1..Len(batches[b].issued) :
                                 batches[b].issued[q].backend = "pending"}} :
           b \in DOMAIN batches}

StatusOf(st, id) == st.files[CHOOSE i \in 1..Len(st.files) : st.files[i].id = id].status

IdsOf(files) == {files[i].id : i \in 1..Len(files)}

\* C1: every id in selectedFiles is the id of a file present in files.
C1_SelectedAreTracked == Range(state.selectedFiles) \subseteq TrackedIds

\* C2: isUploading is true only while a batch upload call of the state
\* machine is in flight.
C2_UploadingOnlyDuringBatch == state.isUploading => FieldBatches # {}

\* C3: in the state right after a batch upload of the state machine has
\* finished, with results or with an exception, isUploading is false.
C3_FlagClearedAfterBatch ==
    (\E c \in Finished : c.kind = "field") => ~ state.isUploading

\* a batch finished by an exception, its file left uploading, while another
\* operation that raises the flag was in progress
C3_Witness ==
    /\ last.op = "uploadRejects"
    /\ last.threw
    /\ \E c \in Finished :
          \E i \in 1..Len(state.files) :
             /\ state.files[i].id \in IdsOf(c.owner)
             /\ state.files[i].status = "uploading"
    /\ initCall.pc # "idle"

C5_OneResultPerFile ==
    \A c \in Finished :
        /\ Len(c.results) = Len(c.files)
        /\ Len(c.issued) = Len(c.files)
        /\ \A i \in 1..Len(c.files) :
              LET validation == validateFile(Files[c.files[i]], strategy)
              IN  /\ c.issued[i].file = c.files[i]
                  /\ IF validation.valid
                     THEN /\ c.issued[i].backend \in {"ok", "failed"}
                          /\ c.results[i].success = (c.issued[i].backend = "ok")
                          /\ c.results[i].success =>
                                c.results[i].url = UrlOf(Files[c.files[i]].name)
                     ELSE /\ c.issued[i].backend = "none"
                          /\ c.results[i] = Result(FALSE, NoUrl, validation.error)

\* a call returned in which one file failed validation, one failed at the
\* backend and a later one succeeded
C5_Witness ==
    \E c \in Finished :
        /\ c.kind = "direct"
        /\ \E i, j, k \in 1..Len(c.files) :
              /\ i < k /\ j < k
              /\ c.issued[i].backend = "none"
              /\ c.issued[j].backend = "failed"
              /\ c.results[k].success

\* The strategy calls in flight or just returned
StrategyCalls == {batches[b] : b \in DOMAIN batches} \cup Finished

CeilDiv(n, d) == (n + d - 1) \div d

\* C6: uploadFiles issues its uploads in ceil(n/3) consecutive windows of 3
\* files taken in input order, the last holding the remainder; no upload of a
\* later window is issued while one of an earlier window has not settled; 7
\* files make three windows, the last of 1.
C6_Windows ==
    \A c \in StrategyCalls :
        /\ \A p \in 1..Len(c.issued) :
              /\ c.issued[p].file = c.files[p]
              /\ c.issued[p].window = ((p - 1) \div 3) + 1
              /\ c.issued[p].backend = "pending" =>
                    \A q \in 1..Len(c.issued) : c.issued[q].window <= c.issued[p].window
        /\ c.done =>
              /\ Len(c.issued) = Len(c.files)
              /\ {c.issued[p].window : p \in 1..Len(c.issued)} = 1..CeilDiv(Len(c.files), 3)
              /\ Len(c.files) = 7 =>
                    Cardinality({p \in 1..7 : c.issued[p].window = 3}) = 1

\* a call over 7 valid files has returned
C6_Witness ==
    \E c \in Finished :
        /\ Len(c.files) = 7
        /\ \A p \in 1..7 : c.issued[p].backend \in {"ok", "failed"}

\* C7: at most 3 backend upload calls are in flight at any moment.
C7_AtMostThreeInFlight == Cardinality(BackendInFlight) <= 3

\* C8: retryFailedUploads hands the strategy exactly the tracked files whose
\* status is failed, in list order, and marks exactly those uploading.
C8_RetryExactlyFailed ==
    [][last'.op = "retryFailedUploads" =>
          LET failed == {i \in 1..Len(state.files) : state.files[i].status = "failed"}
              calls == Range(last'.finished)
                       \cup {batches'[b] : b \in DOMAIN batches' \ DOMAIN batches}
              marked == last'.notified[2]
          IN  /\ IdsOf(last'.submitted) = {state.files[i].id : i \in failed}
              /\ Len(last'.submitted) = Cardinality(failed)
              /\ \E c \in calls :
                    /\ c.owner = last'.submitted
                    /\ Len(c.files) = Len(c.owner)
                    /\ \A k \in 1..Len(c.owner) : c.files[k] = c.owner[k].file
              /\ Len(marked.files) = Len(state.files)
              /\ \A i \in 1..Len(state.files) :
                    /\ marked.files[i].id = state.files[i].id
                    /\ marked.files[i].status =
                          IF i \in failed THEN "uploading" ELSE state.files[i].status]_vars

\* a retry with a failed file to submit and another file to leave alone
C8_Witness ==
    /\ last.op = "retryFailedUploads"
    /\ Len(last.submitted) = 1
    /\ Len(state.files) = 2
    /\ \E i \in 1..2 : state.files[i].status = "completed"

\* The states the observer saw during a task, after the state before it
Seen(before, notified, k) == IF k = 0 THEN before ELSE notified[k]

\* every status change from one state the observer sees to the next is in
\* changes, and a file that appears has a status in entries
StatusChangesWithin(before, notified, changes, entries) ==
    \A k \in 1..Len(notified) :
        LET s == Seen(before, notified, k - 1)
            t == notified[k]
        IN  \A j \in 1..Len(t.files) :
               IF t.files[j].id \in IdsOf(s.files)
               THEN \/ StatusOf(s, t.files[j].id) = t.files[j].status
                    \/ <<StatusOf(s, t.files[j].id), t.files[j].status>> \in changes
               ELSE t.files[j].status \in entries

LifecycleChanges ==
    {<<"pending", "uploading">>, <<"uploading", "completed">>, <<"uploading", "failed">>}

PassTypeAndSize(candidates, ff) ==
    SelectSeq(candidates,
              LAMBDA f : /\ TruthyStr(ff.accept) =>
                               MatchesSome(Files[f], AcceptedTypes(ff.accept))
                         /\ TruthyNum(ff.maxSize) => Files[f].size <= ff.maxSize)

\* C10: with a maximum file count configured, addFiles tracks exactly the
\* first min(k, max(0, maxFiles - tracked)) of the k candidates that pass the
\* type and size rules, in order.
C10_FirstRemainingSlots ==
    [][(last'.op = "addFiles" /\ fileFilter.maxFiles # Undefined) =>
          LET passing == PassTypeAndSize(last'.input, fileFilter)
              n == Min(Len(passing), Max(0, fileFilter.maxFiles - Len(state.files)))
          IN  /\ Len(state'.files) = Len(state.files) + n
              /\ \A i \in 1..Len(state.files) : state'.files[i].id = state.files[i].id
              /\ \A i \in 1..n : state'.files[Len(state.files) + i].file = passing[i]]_vars

\* C11: an addFiles call whose candidates are all rejected by the file filter,
\* or whose list is empty, changes nothing: the state is the same, the
\* observer is not notified, no upload call is issued and nothing is thrown.
C11_RejectedAddChangesNothing ==
    [][(/\ last'.op = "addFiles"
        /\ filterFiles(last'.input, fileFilter, Len(state.files)) = <<>>) =>
          /\ state' = state
          /\ last'.notified = <<>>
          /\ batches' = batches
          /\ ~ last'.started
          /\ last'.finished = <<>>
          /\ ~ last'.threw]_vars

\* candidates were given and all rejected while a file was tracked
C11_Witness ==
    /\ last.op = "addFiles"
    /\ Len(last.input) = 2
    /\ ~ last.started
    /\ last.notified = <<>>
    /\ Len(state.files) = 1

\* C12: validateFile rejects a file exactly when its size exceeds the
\* ceiling, or an allow-list is set and does not hold its type, or its name
\* is longer than 255 characters, or its name holds one of < > : " / \ | ? *;
\* a size equal to the ceiling and a name of exactly 255 characters pass.
C12_ValidateExactly ==
    last.op = "validateFile" =>
        LET file == last.input
            rejected ==
                \/ file.size > strategy.maxFileSize
                \/ /\ strategy.allowedTypes # <<>>
                   /\ file.type \notin Range(strategy.allowedTypes)
                \/ Len(file.name) > 255
                \/ Range(file.name) \cap {"<", ">", ":", "\"", "/", "\\", "|", "?", "*"} # {}
        IN  last.returned.valid = ~ rejected

\* a file at both limits, of an allowed type, was found valid
C12_Witness ==
    /\ last.op = "validateFile"
    /\ last.returned.valid
    /\ last.input.size = strategy.maxFileSize
    /\ Len(last.input.name) = 255
    /\ strategy.allowedTypes # <<>>

\* s holds t as a substring when upper and lower case are not told apart
ContainsIgnoringCase(s, t) ==
    \E i \in 0..(Len(s) - Len(t)) :
        \A k \in 1..Len(t) : toLowerChar(s[i + k]) = toLowerChar(t[k])

\* C13: searchFiles returns, in list order, exactly the tracked files whose
\* name or type contains the term case-insensitively, the full list for an
\* empty or whitespace-only term, and changes no part of the state.
C13_SearchExactly ==
    [][last'.op = "searchFiles" =>
          LET term == last'.input
              blank == \A k \in 1..Len(term) : term[k] \in {" ", "\t", "\n"}
              hits == {i \in 1..Len(state.files) :
                          \/ blank
                          \/ ContainsIgnoringCase(state.files[i].name, term)
                          \/ ContainsIgnoringCase(state.files[i].type, term)}
              found == last'.returned
          IN  /\ state' = state
              /\ last'.notified = <<>>
              /\ batches' = batches
              /\ Len(found) = Cardinality(hits)
              /\ \A k \in 1..Len(found) : found[k] \in {state.files[i] : i \in hits}
              /\ \A i \in hits : \E k \in 1..Len(found) : found[k] = state.files[i]
              /\ \A k, l \in 1..Len(found) :
                    k < l => \E i, j \in hits :
                                /\ i < j
                                /\ found[k] = state.files[i]
                                /\ found[l] = state.files[j]]_vars

\* a search in another case than the name's found one of two files
C13_Witness ==
    /\ last.op = "searchFiles"
    /\ last.input = <<"b", ".">>
    /\ Len(state.files) = 2
    /\ Len(last.returned) = 1
    /\ last.returned[1] = state.files[2]

\* file a comes strictly before file b in the order of field: numbers for
\* size and the epoch value of lastModified, strings without regard to case
KeyBefore(a, b, field) ==
    IF field \in {"size", "lastModified"} THEN a[field] < b[field]
    ELSE StrLess(toLowerCase(a[field]), toLowerCase(b[field]))

Reverse(q) == [i \in 1..Len(q) |-> q[Len(q) + 1 - i]]

\* C14: after sortFiles(field, direction) the list is a permutation of the
\* list before and is ordered by the field in that direction; selectedFiles,
\* isUploading and isDragActive are unchanged.
C14_SortedPermutation ==
    [][last'.op = "sortFiles" =>
          LET field == last'.input[1]
              direction == last'.input[2]
              old == state.files
              new == state'.files
          IN  /\ Len(new) = Len(old)
              /\ \E p \in IndexPermutations(Len(old)) :
                    \A i \in 1..Len(old) : new[i] = old[p[i]]
              /\ \A i, j \in 1..Len(new) :
                    i < j => IF direction = "asc"
                             THEN ~ KeyBefore(new[j], new[i], field)
                             ELSE ~ KeyBefore(new[i], new[j], field)
              /\ state'.selectedFiles = state.selectedFiles
              /\ state'.isUploading = state.isUploading
              /\ state'.isDragActive = state.isDragActive]_vars

\* a sort by name put a.png before B.PDF, against the order of insertion,
\* with files selected
C14_Witness ==
    /\ last.op = "sortFiles"
    /\ last.input = <<"name", "asc">>
    /\ Len(state.files) = 3
    /\ state.files[1].name = Files[1].name
    /\ state.files[2].name = Files[3].name
    /\ state.files[1].id > state.files[2].id
    /\ state.selectedFiles # <<>>

DistinctSizes(files) ==
    \A i, j \in 1..Len(files) : i # j => files[i].size # files[j].size

\* C15: for a list with pairwise distinct sizes, sortFiles(size, desc) gives
\* the reverse of what sortFiles(size, asc) gives, from the same list and
\* when the second follows the first.
C15_DescReversesAsc ==
    [][(last'.op = "sortFiles" /\ DistinctSizes(state.files)) =>
          /\ last'.input = <<"size", "asc">> =>
                \A d \in SortResults(state.files, [field |-> "size", direction |-> "desc"]) :
                    d = Reverse(state'.files)
          /\ (/\ last.op = "sortFiles"
              /\ last.input = <<"size", "asc">>
              /\ last'.input = <<"size", "desc">>) =>
                state'.files = Reverse(state.files)]_vars

\* three files of distinct sizes, added smallest last but one, were sorted
\* by size descending
C15_Witness ==
    /\ last.op = "sortFiles"
    /\ last.input = <<"size", "desc">>
    /\ Len(state.files) = 3
    /\ state.files[1].id = 3
    /\ state.files[3].id = 2
    /\ state.files[1].size > state.files[2].size
    /\ state.files[2].size > state.files[3].size

\* The ids a caller may pass: the tracked ones, the selected ones and one
\* that nothing refers to
SomeIds == TrackedIds \cup Range(state.selectedFiles) \cup {MaxIds + 1}

\* op applied to state st, then once more
Twice(op(_, _), st, id) == op(Task(op(Task(st), id).state), id).state

Idempotent(op(_, _), st, id) == Twice(op, st, id) = op(Task(st), id).state

\* selectAllFiles and clearSelection as operations of an id they ignore
selectAllFilesOf(m, id) == selectAllFiles(m)
clearSelectionOf(m, id) == clearSelection(m)

\* a second call in succession, with the same argument, changes nothing
RepeatedCallChangesNothing(ops) ==
    (/\ last'.op \in ops
     /\ last.op = last'.op
     /\ last.input = last'.input) => state' = state

\* C17 as stated: removeFile(id), selectFile(id), selectAllFiles() and
\* clearSelection() are idempotent.
C17_AllIdempotent ==
    [][/\ \A id \in SomeIds :
             /\ Idempotent(removeFile, state, id)
             /\ Idempotent(selectFile, state, id)
             /\ Idempotent(selectAllFilesOf, state, id)
             /\ Idempotent(clearSelectionOf, state, id)
       /\ RepeatedCallChangesNothing({"removeFile", "selectFile", "selectAllFiles",
                                      "clearSelection"})]_vars

\* C17 amended: removeFile(id), selectAllFiles() and clearSelection() are
\* idempotent; selectFile(id) is not, its second call undoes the first.
C17_IdempotentButSelect ==
    [][/\ \A id \in SomeIds :
             /\ Idempotent(removeFile, state, id)
             /\ Idempotent(selectAllFilesOf, state, id)
             /\ Idempotent(clearSelectionOf, state, id)
             /\ ~ Idempotent(selectFile, state, id)
       /\ RepeatedCallChangesNothing({"removeFile", "selectAllFiles", "clearSelection"})]_vars

\* one of two files was removed while both were selected
C17_Witness ==
    /\ last.op = "removeFile"
    /\ Len(state.files) = 1
    /\ Len(state.selectedFiles) = 2
    /\ last.input[1] \notin TrackedIds

\* C18: when initializeFromRemoteTags returns true the file list is one
\* entry per listed object, in listing order, each completed and with the
\* object's URL, and no file tracked before remains.
C18_ListReplaced ==
    [][last'.returned = "true" =>
          LET blobItems == last'.input
              files == state'.files
          IN  /\ last'.op = "listingArrives"
              /\ Len(files) = Len(blobItems)
              /\ \A i \in 1..Len(files) :
                    /\ files[i].status = "completed"
                    /\ files[i].url = blobItems[i].url
                    /\ files[i].size = blobItems[i].size
                    /\ files[i].type = blobItems[i].contentType
                    /\ files[i].id \notin IdsOf(state.files)
                    /\ \A j \in 1..Len(files) : i # j => files[i].id # files[j].id]_vars

\* two listed objects replaced a list of two local files
C18_Witness ==
    /\ last.op = "listingArrives"
    /\ last.returned = "true"
    /\ Len(last.input) = 2
    /\ Len(last.notified[1].files) = 2
    /\ state.files[1].url = Listings[3][1].url
    /\ state.files[2].url = Listings[3][2].url
    /\ \E b \in DOMAIN batches : Len(batches[b].owner) = 2

\* the last task was a call of initializeFromRemoteTags that found no tags
\* service
NoServiceCall == last'.op = "initializeFromRemoteTags" /\ ~ hasTagsService

\* the last task was the answer of the tag service, and it held no upload
\* tag or a tag without a folder path
NoTagOrFolderAnswer ==
    /\ last'.op = "uploadTagArrives"
    /\ \/ last'.input[1] = NoTag
       \/ last'.input[1].folder \in {UndefinedStr, <<>>}

\* initializeFromRemoteTags returned false without throwing, listing or
\* replacing the file list
ReturnedFalseQuietly ==
    /\ last'.returned = "false"
    /\ ~ last'.threw
    /\ initCall'.pc = "idle"
    /\ state'.files = state.files
    /\ \A k \in 1..Len(last'.notified) : last'.notified[k].files = state.files

\* C19 as stated: without a tags service, an upload tag or a folder path,
\* initializeFromRemoteTags returns false without throwing, listing or
\* replacing the file list, and isUploading is false when it returns.
C19_FalseAndFlagDown ==
    [][(NoServiceCall \/ NoTagOrFolderAnswer) =>
          (ReturnedFalseQuietly /\ ~ state'.isUploading)]_vars

\* C19 amended: isUploading is false at the return when the tag service
\* gave no upload tag or no folder path; without a tags service the call
\* leaves the whole state, the flag included, as it was.
C19_FalseFlagDownWithService ==
    [][/\ NoTagOrFolderAnswer => (ReturnedFalseQuietly /\ ~ state'.isUploading)
       /\ NoServiceCall =>
             (ReturnedFalseQuietly /\ state' = state /\ last'.notified = <<>>)]_vars

\* the tag service answered with a tag that has an empty folder while two
\* files were uploading
C19_Witness ==
    /\ last.op = "uploadTagArrives"
    /\ last.input[1] = Tags[2]
    /\ last.returned = "false"
    /\ Len(state.files) = 2
    /\ batches # <<>>

\* C20: when initializeFromRemoteTags takes up the upload tag, each
\* constraint the tag defines (allowed types, max size, max count) replaces
\* the local value and each one it does not define leaves the local value in
\* force.
C20_MergeKeepsLocal ==
    [][(last'.op = "uploadTagArrives" /\ initCall'.pc = "listFiles") =>
          LET uploadTag == last'.input[1]
          IN  /\ fileFilter'.accept =
                    IF uploadTag.allowedTypes = <<UndefinedStr>>
                    THEN fileFilter.accept
                    ELSE join(uploadTag.allowedTypes, ",")
              /\ fileFilter'.maxSize =
                    IF uploadTag.maxFileSize = Undefined
                    THEN fileFilter.maxSize
                    ELSE uploadTag.maxFileSize
              /\ fileFilter'.maxFiles =
                    IF uploadTag.maxFiles = Undefined
                    THEN fileFilter.maxFiles
                    ELSE uploadTag.maxFiles]_vars

SameNameSizeType(postFile, file) ==
    /\ postFile.name = file.name
    /\ postFile.size = file.size
    /\ (IF "type" \in DOMAIN postFile THEN postFile.type ELSE postFile.contentType) = file.type

C22_ContentRoundTrip ==
    [][/\ (last'.op = "postFilesToServerWithContent" /\ postCall'.pc = "download") =>
            LET completed == SelectSeq(state.files, LAMBDA f : f.status = "completed")
            IN  /\ Len(postCall'.items) = Len(completed)
                /\ \A i \in 1..Len(completed) :
                      SameNameSizeType(postCall'.items[i], completed[i])
       /\ (/\ last'.op = "downloadSettles"
           /\ postCall'.pc = "post"
           /\ \A i \in 1..Len(postCall'.request.files) :
                 postCall'.request.files[i].content = Blob) =>
            /\ Len(postCall'.request.files) = Len(postCall.items)
            /\ \A i \in 1..Len(postCall.items) :
                  /\ postCall'.request.files[i].name = postCall.items[i].name
                  /\ postCall'.request.files[i].size = postCall.items[i].size
                  /\ postCall'.request.files[i].type = postCall.items[i].contentType]_vars

\* C22 witness: two different completed files were downloaded and submitted
C22_Witness ==
    /\ last.op = "downloadSettles"
    /\ postCall.pc = "post"
    /\ Len(postCall.request.files) = 2
    /\ postCall.request.files[1].content = Blob
    /\ postCall.request.files[2].content = Blob
    /\ postCall.request.files[1].name # postCall.request.files[2].name

\* C23: no asynchronous operation of the state machine (addFiles,
\* retryFailedUploads, initializeFromRemoteTags, loadFilesFromRemoteFolder,
\* postFilesToServer, postFilesToServerWithContent) ends with a thrown or
\* rejected failure, whatever the backend, the tag service or the post
\* endpoint answers.
C23_NothingThrownPastBoundary == ~ last.threw

\* C24: after cleanupExpiredTickets, every ticket whose expiry is in the past
\* has status expired and is not among the active tickets, and every other
\* ticket keeps its status.
C24_CleanupFlipsExpired ==
    [][last'.op = "cleanupExpiredTickets" =>
          /\ DOMAIN tickets' = DOMAIN tickets
          /\ \A id \in DOMAIN tickets :
                IF now' > tickets[id].expiryDate
                THEN /\ tickets'[id].status = "expired"
                     /\ id \notin getActiveTickets(tickets', now')
                ELSE tickets'[id].status = tickets[id].status]_vars

\* C24 witness: a cleanup has expired a used ticket and kept an active one
C24_Witness ==
    /\ last.op = "cleanupExpiredTickets"
    /\ \E a, b \in DOMAIN tickets :
          /\ tickets[a].status = "expired" /\ now > tickets[a].expiryDate
          /\ tickets[b].status = "active" /\ now <= tickets[b].expiryDate

\* C25: the stored status and the live expiry check agree in every state: no
\* ticket is stored active with its expiry passed, none is stored expired
\* with its expiry still to come.
C25_StatusAgreesWithExpiry ==
    \A id \in DOMAIN tickets :
        /\ ~ (tickets[id].status = "active" /\ isTicketExpired(tickets[id], now))
        /\ ~ (tickets[id].status = "expired" /\ ~ isTicketExpired(tickets[id], now))

\* C26: every mutation replaces the whole state and then notifies the
\* observer with it.  A task that leaves the state changed has notified, the
\* last state it delivered is the state it leaves, a task that notified
\* nothing leaves the state as it was, and every delivered state has all four
\* fields; so between tasks the observer's last state is the current one.
C26_ObserverHasCurrentState ==
    [][/\ \A k \in 1..Len(last'.notified) : DOMAIN last'.notified[k] = StateFields
       /\ IF last'.notified = <<>>
          THEN state' = state
          ELSE last'.notified[Len(last'.notified)] = state']_vars

\* C26 witness: a task that notified several times, ending an upload
C26_Witness ==
    /\ last.op = "uploadSettles"
    /\ Len(last.notified) >= 2
    /\ last.notified[1] # last.notified[2]
    /\ last.notified[Len(last.notified)] = state
    /\ \E i \in 1..Len(state.files) : state.files[i].status = "failed"

\* C27: if one backend upload call never settles, every other file of the
\* same addFiles or retryFailedUploads call whose own upload settled still
\* reaches status completed or failed.
UploadAnswered(id) ==
    \E b \in DOMAIN batches :
        \E i \in 1..Len(batches[b].issued) :
            /\ batches[b].owner[i].id = id
            /\ batches[b].issued[i].backend \in {"ok", "failed"}

ReachedResult(id) ==
    \E i \in 1..Len(state.files) :
        state.files[i].id = id /\ state.files[i].status \in {"completed", "failed"}

C27_OthersReachResult ==
    \A id \in 1..MaxStallIds : UploadAnswered(id) ~> ReachedResult(id)

\* C28: the ids of the tracked files are pairwise distinct in every
\* reachable state, after any additions (several files per call, several
\* calls at one clock value) and list replacements.
C28_IdsDistinct ==
    \A i, j \in 1..Len(state.files) : i # j => state.files[i].id # state.files[j].id

\* C29: when every backend upload call settles in the end, every file
\* accepted by addFiles comes to status completed or failed or stops being
\* tracked, and isUploading comes to be false, whatever removals, sorts,
\* retries and further additions happen meanwhile.
Unfinished(id) ==
    \E i \in 1..Len(state.files) :
        state.files[i].id = id /\ state.files[i].status \in {"pending", "uploading"}

C29_EveryUploadEnds ==
    /\ \A id \in 1..MaxLiveIds : Unfinished(id) ~> ~ Unfinished(id)
    /\ state.isUploading ~> ~ state.isUploading

\* C29 witness: a retried upload has ended among other files
C29_Witness ==
    /\ last.op = "uploadSettles"
    /\ ~ state.isUploading
    /\ Len(state.files) = 2
    /\ state.files[1].status = "failed"
    /\ state.files[2].status = "completed"
    /\ state.files[1].id > state.files[2].id
    /\ Len(last.finished) = 1
    /\ last.finished[1].owner[1].status = "failed"

\* C30: while a batch upload started by addFiles or retryFailedUploads is in
\* flight, isUploading is true, also when two batches overlap or when
\* initializeFromRemoteTags or postFilesToServer run and end meanwhile.
C30_UploadingWhileBatchInFlight ==
    (\E b \in DOMAIN batches : batches[b].kind = "field") => state.isUploading

\* C31: when the listing of the Azure storage service fails during
\* initializeFromRemoteTags, the call returns false and the file list is
\* not replaced.
C31_ListingFailureKeepsList ==
    [][(last'.op = "azureListingSettles" /\ last'.input = <<"throws">>)
          => (last'.returned = "false" /\ state'.files = state.files)]_vars

\* C32: with the strategy built by the component from the field's
\* fileFilter, every file the File Filter accepted (every tracked file that
\* came from addFiles) passes validateFile on type and size.
C32_FilterAcceptedPassValidate ==
    \A i \in 1..Len(state.files) :
        state.files[i].file # NoFile =>
            validateFile(Files[state.files[i].file], strategy).error \notin {"size", "type"}

\* C33: with a maximum file count configured, the number of tracked files
\* never exceeds the maximum in force.
C33_CountWithinMaximum ==
    fileFilter.maxFiles # Undefined => Len(state.files) <= fileFilter.maxFiles

\* C34: the task in which initializeFromRemoteTags returns false leaves
\* the file list, the File Filter and the current upload tag as they were.
C34_FalseLeavesAllAsBefore ==
    [][(/\ last'.returned = "false"
        /\ last'.op \in {"initializeFromRemoteTags", "uploadTagArrives", "listingFails"})
          => /\ state'.files = state.files
             /\ fileFilter' = fileFilter
             /\ currentUploadTag' = currentUploadTag]_vars

\* the id of the tracked file a backend upload call <<b, p>> uploads
UploadedId(call) == batches[call[1]].owner[call[2]].id

IdSeq(files) == [i \in 1..Len(files) |-> files[i].id]

\* C36: writing the statuses of a batch (uploading at its start, the
\* results at its end) never adds an entry to files nor changes their number
\* or order, so a file removed or replaced while its upload was in flight
\* does not come back.
C36_StatusWritesKeepEntries ==
    [][last'.op \in {"uploadSettles", "uploadRejects", "retryFailedUploads"}
          => IdSeq(state'.files) = IdSeq(state.files)]_vars

\* a batch has just ended whose file was removed during the upload, while
\* another file is tracked
C36_Witness ==
    /\ last.op = "uploadSettles"
    /\ Len(last.finished) = 1
    /\ \E i \in 1..Len(last.finished[1].owner) :
          last.finished[1].owner[i].id \notin TrackedIds
    /\ TrackedIds # {}

\* what the endpoint did with the request of the last ticket task
TicketReply(l) == l.input[Len(l.input)]

\* C37: when the ticketing API call fails, generateUploadTicket and
\* refreshTicket return null and markTicketAsUsed returns false, nothing is
\* thrown and the ledger is unchanged; refreshTicket of an id that is not in
\* the ledger returns null without a request.
C37_TicketFailuresAreQuiet ==
    [][/\ (/\ last'.op \in {"generateUploadTicket", "refreshTicket"}
           /\ TicketReply(last') # "ok")
             => (last'.returned = "null" /\ ~ last'.threw /\ tickets' = tickets)
       /\ (last'.op = "markTicketAsUsed" /\ TicketReply(last') # "ok")
             => (last'.returned = "false" /\ ~ last'.threw /\ tickets' = tickets)
       /\ (last'.op = "refreshTicket" /\ last'.input[1] \notin DOMAIN tickets)
             => (last'.returned = "null" /\ ~ last'.started /\ ~ last'.threw
                 /\ tickets' = tickets)]_vars

\* markTicketAsUsed got a non-2xx response for an active ticket of the
\* ledger, which is still active
C37_Witness ==
    /\ last.op = "markTicketAsUsed"
    /\ TicketReply(last) = "non2xx"
    /\ last.input[1] \in DOMAIN tickets
    /\ tickets[last.input[1]].status = "active"
    /\ Cardinality(DOMAIN tickets) = 2

\* C38: a ticket whose stored status is used keeps that status through
\* every later cleanupExpiredTickets, refreshTicket and markTicketAsUsed call
\* and every advance of the clock.
C38_UsedStaysUsed ==
    [][last'.op \in {"cleanupExpiredTickets", "refreshTicket", "markTicketAsUsed", "clock"}
          => \A id \in DOMAIN tickets :
                tickets[id].status = "used" =>
                    (id \in DOMAIN tickets' /\ tickets'[id].status = "used")]_vars

\* C39: getTicketStats counts every ticket in exactly one of active, used
\* and expired: the three counts add up to the total.
C39_StatsAddUp ==
    LET stats == getTicketStats(tickets, now)
    IN  stats.active + stats.used + stats.expired = stats.total

====
